---- MODULE Spec2Model ----
(***************************************************************************)
(* State-machine model of the ISOLDE C++ core (thorn-lab/isolde):          *)
(*   - Dihedral_Mgr<DType>         (atomic_cpp/dihedral_mgr.{h,cpp})       *)
(*   - Position_Restraint(_Mgr)    (restraints_cpp/position_restraints)   *)
(*   - Distance_Restraint(_Mgr)    (restraints_cpp/distance_restraints)   *)
(* Pointers are modelled as tagged identities <<kind, n>>; doubles as      *)
(* integers in the unit of the constant they are compared with.            *)
(***************************************************************************)
EXTENDS Integers, Sequences, FiniteSets, TLC

VARIABLES
    destroyed,          \* host: identities destroyed (and notified) so far
    dihedral,           \* heap of Dihedral objects: id -> fields, or NoDihedral
    _dihedrals,         \* Dihedral_Mgr::_dihedrals (owned instances, in order)
    _residue_map,       \* Dihedral_Mgr::_residue_map  (Residue* -> name -> DType*)
    _residue_name_map,  \* Dihedral_Mgr::_residue_name_map (rname -> dname -> d_def)
    coord,              \* host: Atom::coord()
    visible,            \* host: Atom::visible()
    prestraint,         \* heap of Position_Restraint objects
    _atom_to_restraint, \* Position_Restraint_Mgr::_atom_to_restraint
    drestraint,         \* heap of Distance_Restraint objects
    _restraints,        \* Distance_Restraint_Mgr: the registered restraints
    tracker,            \* Change_Tracker: set of <<manager, object, reason>>
    interpolator,       \* a RegularGridInterpolator the caller constructed, or none
    _interpolators,     \* Rama_Mgr: case -> RegularGridInterpolator
    _cutoffs,           \* Rama_Mgr: case -> (allowed, outlier)
    force,              \* an OpenMM custom force: its kind and its terms
    rota_mgr,           \* Rota_Mgr: [interpolators, cutoffs]
    ret                 \* result of the last call: [op, val, err]

hostVars     == <<destroyed, coord, visible>>
dihedralVars == <<dihedral, _dihedrals, _residue_map, _residue_name_map>>
positionVars == <<prestraint, _atom_to_restraint>>
distanceVars == <<drestraint, _restraints>>
validatorVars == <<interpolator, _interpolators, _cutoffs>>
engineVars   == <<validatorVars, force, rota_mgr>>
vars == <<destroyed, dihedral, _dihedrals, _residue_map, _residue_name_map,
          coord, visible, prestraint, _atom_to_restraint, drestraint, _restraints,
          tracker, interpolator, _interpolators, _cutoffs, force, rota_mgr, ret>>

(***************************************************************************)
(* Bounds of the model                                                     *)
(***************************************************************************)
NAtoms == 5
NResidues == 2
MaxDihedrals == 2
MaxDestroyed == 2
MaxRestraints == 2

(***************************************************************************)
(* The host's atomic graph (external collaborator)                         *)
(***************************************************************************)
Null == 0
AtomIds == 1..NAtoms
ResidueIds == 1..NResidues
DihedralIds == 1..MaxDihedrals

AtomPtr(a) == <<"atom", a>>
ResiduePtr(r) == <<"residue", r>>
DihedralPtr(d) == <<"dihedral", d>>

AtomAlive(a) == AtomPtr(a) \notin destroyed
ResidueAlive(r) == ResiduePtr(r) \notin destroyed

\* One more atom, ForeignAtom, belongs to another structure than the one the
\* managers are bound to.
ForeignAtom == NAtoms + 1
AllAtomIds == AtomIds \cup {ForeignAtom}
ModelStructure == 1
OtherStructure == 2
structure(a) == IF a \in AtomIds THEN ModelStructure ELSE OtherStructure

\* Atom 1 is a hydrogen, every other atom a carbon (Element::number()).
HYDROGEN == 1
CARBON == 6
element_number(a) == IF a = 1 THEN HYDROGEN ELSE CARBON

\* Atoms are bonded in one chain 1-2-...-NAtoms, and atom 3 also to atom 5, so
\* that it has three neighbours; a bond is the set of its two atoms, bonds(a)
\* the bonds of atom a.  Atom::connects_to(b) is Bonded(a, b).
Bonded(a, b) ==
    /\ a \in AtomIds /\ b \in AtomIds
    /\ (a - b = 1) \/ (b - a = 1) \/ {a, b} = {3, 5}

\* Atom::residue(): the first atoms belong to residue 1, the others to the last.
atom_residue(a) == IF 2 * a <= NAtoms THEN 1 ELSE NResidues
bonds(a) == { {a, b} : b \in { x \in AtomIds : Bonded(a, x) } }

\* Coordinates: one scalar stands for the three components of a Coord.
Coords == {0, 1}
InitialCoord == [a \in AllAtomIds |-> a % 2]

\* The four consecutively bonded atoms that make up the dihedrals of residue r.
ResidueQuad(r) == <<r, r + 1, r + 2, r + 3>>

AtomsOf(quad) == { quad[i] : i \in 1..4 }

(***************************************************************************)
(* Dihedral objects                                                        *)
(***************************************************************************)
DihedralNames == {"phi", "psi"}

\* Angles are whole multiples of pi/M_PI radians, so that pi, 2*pi and the odd
\* multiples of pi are exact, as M_PI, 2.0*M_PI and 3.0*M_PI are exact doubles.
M_PI == 4
TWO_PI == 2 * M_PI
NAN_NOT_SET == "nan"

NoDihedral == [live |-> FALSE, atoms |-> <<>>, residue |-> Null, name |-> "",
               target |-> NAN_NOT_SET]

Dihedral(quad, owner, dname) ==
    [live |-> TRUE, atoms |-> quad, residue |-> owner, name |-> dname,
     target |-> NAN_NOT_SET]

\* std::remainder(x, y): x - n*y where n is the integer nearest to x/y, and the
\* even one of the two when x/y lies halfway between them.
remainder(x, y) ==
    LET q == x \div y
        m == x % y
    IN  IF 2 * m < y THEN m
        ELSE IF 2 * m > y THEN m - y
        ELSE IF q % 2 = 0 THEN m ELSE m - y

\* Dihedral::target
target_angle(d) == dihedral[d].target

FreeDihedralIds == { d \in DihedralIds : ~dihedral[d].live }
LiveDihedralIds == { d \in DihedralIds : dihedral[d].live }

(***************************************************************************)
(* Dihedral_Mgr                                                            *)
(***************************************************************************)
Range(s) == { s[i] : i \in 1..Len(s) }

RECURSIVE SeqFilter(_, _)
SeqFilter(s, keep) ==
    IF s = <<>> THEN <<>>
    ELSE IF Head(s) \in keep THEN <<Head(s)>> \o SeqFilter(Tail(s), keep)
         ELSE SeqFilter(Tail(s), keep)

\* f with key k mapped to v (std::unordered_map::operator[] then assignment)
MapPut(f, k, v) == [x \in (DOMAIN f) \cup {k} |-> IF x = k THEN v ELSE f[x]]
MapDrop(f, ks) == [x \in (DOMAIN f) \ ks |-> f[x]]
EmptyMap == [x \in {} |-> Null]

\* The (residue, name, instance) triples of the index.
MappedEntries(rmap) ==
    { <<k[1], k[2], rmap[k[1]][k[2]]>> :
        k \in { x \in (DOMAIN rmap) \X DihedralNames : x[2] \in DOMAIN rmap[x[1]] } }

RECURSIVE CountMapped(_, _)
CountMapped(rmap, rs) ==
    IF rs = {} THEN 0
    ELSE LET r == CHOOSE x \in rs : TRUE
         IN  Cardinality(DOMAIN rmap[r]) + CountMapped(rmap, rs \ {r})

\* Dihedral_Mgr::num_mapped_dihedrals
num_mapped_dihedrals_of(rmap) == CountMapped(rmap, DOMAIN rmap)
num_mapped_dihedrals == num_mapped_dihedrals_of(_residue_map)

\* A variant of the first half of add_dihedral that stores d in every call.
add_dihedral_list_always(list, d) == Append(list, d)

\* Dihedral_Mgr::add_dihedral, first half: store d unless already stored.
add_dihedral_list(list, d) ==
    IF d \in Range(list) THEN list ELSE Append(list, d)

\* Dihedral_Mgr::add_dihedral, second half: index d under (residue, name) when
\* it has both; obj holds the fields of *d.
add_dihedral_map(rmap, d, obj) ==
    IF obj.residue = Null THEN rmap            \* residue() threw: return
    ELSE IF obj.name = "" THEN rmap
    ELSE LET r  == obj.residue
             dm == IF r \in DOMAIN rmap THEN rmap[r] ELSE EmptyMap
         IN  MapPut(rmap, r, MapPut(dm, obj.name, d))

\* Dihedral_Mgr::destructors_done, first loop: drop the index entries whose
\* instance pointer is in the destroyed set, then the residues that are.
destructors_done_map(rmap, S) ==
    LET kept == { r \in DOMAIN rmap : ResiduePtr(r) \notin S }
    IN  [r \in kept |->
            MapDrop(rmap[r], { n \in DOMAIN rmap[r] : DihedralPtr(rmap[r][n]) \in S })]

\* Dihedral_Mgr::destructors_done, second loop: drop the owned instances whose
\* pointer is in the destroyed set.
destructors_done_list(list, S) ==
    SeqFilter(list, { d \in Range(list) : DihedralPtr(d) \notin S })

(***************************************************************************)
(* Dihedral definitions (Nmap)                                             *)
(***************************************************************************)
ResNames == {"ALA", "GLY"}
AtomNameLists == { <<"C", "N", "CA", "C">>, <<"N", "CA", "C", "N">> }
ExternalLists == { <<TRUE, FALSE, FALSE, FALSE>>, <<FALSE, FALSE, FALSE, TRUE>> }

has_dihedral_def(nmap, rname, dname) ==
    rname \in DOMAIN nmap /\ dname \in DOMAIN nmap[rname]

\* A variant that overwrites a definition that already exists.
add_dihedral_def_map_overwriting(nmap, rname, dname, anames, externals) ==
    LET am == IF rname \in DOMAIN nmap THEN nmap[rname] ELSE [x \in {} |-> 0]
    IN  [x \in (DOMAIN nmap) \cup {rname} |->
            IF x = rname
            THEN [y \in (DOMAIN am) \cup {dname} |->
                     IF y = dname THEN <<anames, externals>> ELSE am[y]]
            ELSE nmap[x]]

\* Dihedral_Mgr::add_dihedral_def: the map after the call.
add_dihedral_def_map(nmap, rname, dname, anames, externals) ==
    LET am == IF rname \in DOMAIN nmap THEN nmap[rname] ELSE EmptyMap
    IN  IF dname \in DOMAIN am
        THEN MapPut(nmap, rname, am)      \* am.at(dname) found: runtime_error
        ELSE MapPut(nmap, rname, MapPut(am, dname, <<anames, externals>>))

\* Dihedral_Mgr::add_dihedral_def: whether it throws std::runtime_error.
add_dihedral_def_throws(nmap, rname, dname) == has_dihedral_def(nmap, rname, dname)

\* Dihedral_Mgr::get_dihedral_def: the d_def, or NoDef for std::out_of_range.
NoDef == <<>>
get_dihedral_def(nmap, rname, dname) ==
    IF has_dihedral_def(nmap, rname, dname) THEN nmap[rname][dname] ELSE NoDef

\* The residue type of every residue of the model structure.
ResidueName(r) == "ALA"

\* The definitions read from dictionaries/named_dihedrals.json ("all_protein").
TableDef(dname) ==
    IF dname = "phi" THEN << <<"C", "N", "CA", "C">>, <<TRUE, FALSE, FALSE, FALSE>> >>
    ELSE << <<"N", "CA", "C", "N">>, <<FALSE, FALSE, FALSE, TRUE>> >>

\* new_dihedral's atom lookup: the atoms the definition names in residue r and
\* its bonded neighbours; <<>> when one of them cannot be found.
ResolveAtoms(r, ddef) ==
    LET quad == IF ddef[2][1] THEN ResidueQuad(r) ELSE ResidueQuad(r + 1)
    IN  IF \A i \in 1..4 : quad[i] \in AtomIds /\ AtomAlive(quad[i])
        THEN quad ELSE <<>>

\* A variant that never finds the cached instance.
get_dihedral_never_found(rmap, r, dname) == 0

\* Dihedral_Mgr::get_dihedral without creation: the cached instance or nullptr.
get_dihedral(rmap, r, dname) ==
    IF r \in DOMAIN rmap /\ dname \in DOMAIN rmap[r] THEN rmap[r][dname] ELSE Null

\* The (atoms, owner, name) triples dihedrals are constructed from: named or
\* unnamed, attached to a residue or to none.
DihedralInputs ==
    { <<ResidueQuad(r), r, n>> : r \in ResidueIds, n \in {"phi", ""} } \cup
    { <<ResidueQuad(1), Null, n>> : n \in {"phi", ""} }

LowestFree == CHOOSE d \in FreeDihedralIds : \A e \in FreeDihedralIds : d <= e

Ret(o, v, e) == [op |-> o, val |-> v, err |-> e]

(***************************************************************************)
(* Operations on the Dihedral_Mgr                                          *)
(***************************************************************************)
\* The host (or the Python layer) constructs a dihedral on the heap.
CreateDihedral(quad, owner, dname) ==
    /\ FreeDihedralIds /= {}
    /\ \A a \in AtomsOf(quad) : AtomAlive(a)
    /\ owner /= Null => ResidueAlive(owner)
    /\ dihedral' = [dihedral EXCEPT ![LowestFree] = Dihedral(quad, owner, dname)]
    /\ ret' = Ret("Dihedral", Null, FALSE)
    /\ UNCHANGED <<_dihedrals, _residue_map, _residue_name_map>>
    /\ UNCHANGED <<hostVars, engineVars, positionVars, distanceVars, tracker>>

\* Dihedral::Dihedral(a1, a2, a3, a4, owner, name) throws unless the four atoms
\* are distinct atoms of one structure.
Dihedral_throws(quad) ==
    \/ Cardinality(AtomsOf(quad)) /= 4
    \/ \E a \in AtomsOf(quad) : structure(a) /= structure(quad[1])

\* ChiralCenter's constructor testing the first substituent only.
ChiralCenter_throws_first_only(center, s1, s2, s3) == ~Bonded(s1, center)

\* ChiralCenter::ChiralCenter throws unless s1, s2 and s3 connect to the center.
ChiralCenter_throws(center, s1, s2, s3) ==
    ~Bonded(s1, center) \/ ~Bonded(s2, center) \/ ~Bonded(s3, center)

\* A ChiralCenter whose owner is the residue of its first substituent.
ChiralCenter_of_substituent(center, s1, s2, s3, expected_angle) ==
    Dihedral(<<center, s1, s2, s3>>, atom_residue(s1), "chiral")
        @@ [_expected_angle |-> expected_angle]

\* ChiralCenter::ChiralCenter: a Dihedral of (center, s1, s2, s3) owned by the
\* residue of the center and named "chiral", with its expected angle.
ChiralCenter(center, s1, s2, s3, expected_angle) ==
    Dihedral(<<center, s1, s2, s3>>, atom_residue(center), "chiral")
        @@ [_expected_angle |-> expected_angle]

CreateChiralCenter(center, s1, s2, s3, expected_angle) ==
    /\ FreeDihedralIds /= {}
    /\ \A a \in {center, s1, s2, s3} : AtomAlive(a)
    /\ IF Dihedral_throws(<<center, s1, s2, s3>>) \/ ChiralCenter_throws(center, s1, s2, s3)
       THEN /\ ret' = Ret("ChiralCenter", Null, TRUE)
            /\ UNCHANGED dihedral
       ELSE /\ dihedral' = [dihedral EXCEPT
                               ![LowestFree] = ChiralCenter(center, s1, s2, s3, expected_angle)]
            /\ ret' = Ret("ChiralCenter", LowestFree, FALSE)
    /\ UNCHANGED <<_dihedrals, _residue_map, _residue_name_map>>
    /\ UNCHANGED <<hostVars, engineVars, positionVars, distanceVars, tracker>>

\* Dihedral::set_target
SetTarget(d, val) ==
    /\ dihedral[d].live
    /\ dihedral' = [dihedral EXCEPT ![d].target = remainder(val, TWO_PI)]
    /\ ret' = Ret("set_target", <<d, val>>, FALSE)
    /\ UNCHANGED <<_dihedrals, _residue_map, _residue_name_map>>
    /\ UNCHANGED <<hostVars, engineVars, positionVars, distanceVars, tracker>>

AddDihedral(d) ==
    /\ dihedral[d].live
    /\ _dihedrals' = add_dihedral_list(_dihedrals, d)
    /\ _residue_map' = add_dihedral_map(_residue_map, d, dihedral[d])
    /\ ret' = Ret("add_dihedral", Null, FALSE)
    /\ UNCHANGED <<dihedral, _residue_name_map>>
    /\ UNCHANGED <<hostVars, engineVars, positionVars, distanceVars, tracker>>

\* new_dihedral(res, dname): look the definition up, resolve the atoms,
\* construct the dihedral and register it.
NewDihedral(r, dname) ==
    /\ ResidueAlive(r)
    /\ LET ddef == get_dihedral_def(_residue_name_map, ResidueName(r), dname)
           quad == IF ddef = NoDef THEN <<>> ELSE ResolveAtoms(r, ddef)
       IN  IF quad = <<>>
           THEN /\ ret' = Ret("new_dihedral", Null, TRUE)
                /\ UNCHANGED dihedralVars
           ELSE /\ FreeDihedralIds /= {}
                /\ LET d == LowestFree
                       obj == Dihedral(quad, r, dname)
                   IN  /\ dihedral' = [dihedral EXCEPT ![d] = obj]
                       /\ _dihedrals' = add_dihedral_list(_dihedrals, d)
                       /\ _residue_map' = add_dihedral_map(_residue_map, d, obj)
                       /\ ret' = Ret("new_dihedral", d, FALSE)
                /\ UNCHANGED _residue_name_map
    /\ UNCHANGED <<hostVars, engineVars, positionVars, distanceVars, tracker>>

\* get_dihedral(res, name, create)
GetDihedral(r, dname, create) ==
    /\ ResidueAlive(r)
    /\ LET found == get_dihedral(_residue_map, r, dname)
       IN  IF found /= Null \/ ~create
           THEN /\ ret' = Ret("get_dihedral", found, FALSE)
                /\ UNCHANGED dihedralVars
                /\ UNCHANGED <<hostVars, engineVars, positionVars, distanceVars, tracker>>
           ELSE NewDihedral(r, dname)

\* delete_dihedrals(delete_list): delete each instance; the destruction
\* notification that follows purges them from the manager.
DeleteDihedrals(ds) ==
    /\ ds /= {} /\ ds \subseteq LiveDihedralIds
    /\ LET S == { DihedralPtr(d) : d \in ds }
       IN  /\ dihedral' = [d \in DihedralIds |-> IF d \in ds THEN NoDihedral ELSE dihedral[d]]
           /\ _residue_map' = destructors_done_map(_residue_map, S)
           /\ _dihedrals' = destructors_done_list(_dihedrals, S)
    /\ ret' = Ret("delete_dihedrals", Null, FALSE)
    /\ UNCHANGED _residue_name_map
    /\ UNCHANGED <<hostVars, engineVars, positionVars, distanceVars, tracker>>

AddDihedralDef(rname, dname, anames, externals) ==
    /\ _residue_name_map' =
           add_dihedral_def_map(_residue_name_map, rname, dname, anames, externals)
    /\ ret' = Ret("add_dihedral_def", Null,
                  add_dihedral_def_throws(_residue_name_map, rname, dname))
    /\ UNCHANGED <<dihedral, _dihedrals, _residue_map>>
    /\ UNCHANGED <<hostVars, engineVars, positionVars, distanceVars, tracker>>

GetDihedralDef(rname, dname) ==
    /\ LET ddef == get_dihedral_def(_residue_name_map, rname, dname)
       IN  ret' = Ret("get_dihedral_def", ddef, ddef = NoDef)
    /\ UNCHANGED <<dihedralVars, hostVars, engineVars, positionVars, distanceVars, tracker>>

(***************************************************************************)
(* Change_Tracker: accumulated <<manager, object, reason>> records         *)
(***************************************************************************)
REASON_CREATED == "created"
REASON_TARGET_CHANGED == "target changed"
REASON_SPRING_CONSTANT_CHANGED == "spring constant changed"
REASON_ENABLED_CHANGED == "enabled/disabled"
POSITION_MGR == "Position_Restraint_Mgr"
DISTANCE_MGR == "Distance_Restraint_Mgr"

\* A variant that files the reason under every object of the manager that
\* has a record.
track_change_every_object(t, mgr, obj, reason) ==
    t \cup { <<mgr, x[2], reason>> : x \in { y \in t : y[1] = mgr } }
      \cup { <<mgr, obj, reason>> }

\* track_change(object, reason): the reason joins the set of the object.
track_change(t, mgr, obj, reason) == t \cup { <<mgr, obj, reason>> }

\* A variant of clear() that keeps the records of created objects.
clear_keeps_created(t) == { x \in t : x[3] = REASON_CREATED }

\* clear(): drains and resets the accumulated state.
clear(t) == {}
track_created(t, mgr, obj) == track_change(t, mgr, obj, REASON_CREATED)

(***************************************************************************)
(* Restraint values                                                        *)
(***************************************************************************)
MAX_LINEAR_SPRING_CONSTANT == 100000
MIN_DISTANCE_RESTRAINT_TARGET == 1

RestraintIds == 1..MaxRestraints

\* Sim_Restraint_Base::_sim_index when the restraint is in no simulation.
NO_SIM_INDEX == -1

(***************************************************************************)
(* Position_Restraint and Position_Restraint_Mgr                           *)
(***************************************************************************)
NoRestraint == [live |-> FALSE]

\* A variant of the constructor that starts with the simulation index 0.
Position_Restraint_indexed(atom, target) ==
    [live |-> TRUE, atom |-> atom, target |-> target,
     spring_constant |-> 0, enabled |-> FALSE, sim_index |-> 0]

\* Position_Restraint(atom, target, mgr): k and enabled from the member
\* initialisers, the simulation index from Sim_Restraint_Base.
Position_Restraint(atom, target) ==
    [live |-> TRUE, atom |-> atom, target |-> target,
     spring_constant |-> 0, enabled |-> FALSE, sim_index |-> NO_SIM_INDEX]

FreePositionIds == { r \in RestraintIds : ~prestraint[r].live }
LowestFreePosition ==
    CHOOSE r \in FreePositionIds : \A e \in FreePositionIds : r <= e

num_restraints == Cardinality(DOMAIN _atom_to_restraint)

\* A variant without the hydrogen check.
new_restraint_error_no_hydrogen_check(atom) ==
    IF structure(atom) /= ModelStructure THEN "wrong structure" ELSE "none"

\* A variant that places the target at the origin.
new_restraint_target_origin(atom) == 0

\* Position_Restraint_Mgr_Base::_new_restraint(atom): the target it passes on.
new_restraint_target(atom) == coord[atom]

\* Position_Restraint_Mgr_Base::_new_restraint: which check throws, if any.
new_restraint_error(atom) ==
    IF structure(atom) /= ModelStructure THEN "wrong structure"
    ELSE IF element_number(atom) = HYDROGEN THEN "hydrogen"
    ELSE "none"

\* Position_Restraint_Mgr_Base::get_restraint: the restraint found, or Null.
find_restraint(amap, atom) ==
    IF atom \in DOMAIN amap THEN amap[atom] ELSE Null

\* A variant that creates whether or not create is set.
get_restraint_creates_always(amap, atom, create) == atom \notin DOMAIN amap

\* Position_Restraint_Mgr_Base::get_restraint: whether it goes on to create.
get_restraint_creates(amap, atom, create) ==
    find_restraint(amap, atom) = Null /\ create

\* get_restraint(atom, create)
GetRestraint(atom, create) ==
    /\ AtomAlive(atom)
    /\ IF ~get_restraint_creates(_atom_to_restraint, atom, create)
       THEN /\ ret' = Ret("get_restraint", find_restraint(_atom_to_restraint, atom), FALSE)
            /\ UNCHANGED <<positionVars, tracker>>
       ELSE IF new_restraint_error(atom) /= "none"
       THEN /\ ret' = Ret("get_restraint", Null, TRUE)
            /\ UNCHANGED <<positionVars, tracker>>
       ELSE /\ FreePositionIds /= {}
            /\ LET r == LowestFreePosition
               IN  /\ prestraint' =
                          [prestraint EXCEPT ![r] = Position_Restraint(atom, new_restraint_target(atom))]
                   /\ _atom_to_restraint' = MapPut(_atom_to_restraint, atom, r)
                   /\ tracker' = track_created(
                          track_change(tracker, POSITION_MGR, r, REASON_TARGET_CHANGED),
                          POSITION_MGR, r)
                   /\ ret' = Ret("get_restraint", r, FALSE)
    /\ UNCHANGED <<hostVars, engineVars, dihedralVars, distanceVars>>

\* Whether a setter goes on to call track_change: set_target and set_k do
\* in every call.
position_set_target_tracks(obj, target) == TRUE

\* A variant of set_k that records only for a restraint that is in a simulation.
position_set_k_tracks_in_simulation(obj, k) == obj.sim_index /= NO_SIM_INDEX

position_set_k_tracks(obj, k) == TRUE

\* A variant of set_enabled's test that records every call.
position_set_enabled_tracks_always(obj, flag) == TRUE

\* Position_Restraint::set_enabled: if (_enabled != flag)
position_set_enabled_tracks(obj, flag) == obj.enabled /= flag

\* The change a setter records, when it records one.
tracked(t, does, mgr, obj, reason) ==
    IF does THEN track_change(t, mgr, obj, reason) ELSE t

\* Position_Restraint::set_target; the result notes the arguments and whether
\* track_change was called.
PositionSetTarget(r, target) ==
    /\ prestraint[r].live
    /\ prestraint' = [prestraint EXCEPT ![r].target = target]
    /\ LET does == position_set_target_tracks(prestraint[r], target)
       IN  /\ tracker' = tracked(tracker, does, POSITION_MGR, r, REASON_TARGET_CHANGED)
           /\ ret' = Ret("set_target", <<r, target, does>>, FALSE)
    /\ UNCHANGED <<_atom_to_restraint, hostVars, engineVars, dihedralVars, distanceVars>>

\* A variant that also drops the restraint from the simulation.
position_set_k_resets_sim_index(obj, k) ==
    [obj EXCEPT !.spring_constant =
                    IF k < 0 THEN 0
                    ELSE IF k > MAX_LINEAR_SPRING_CONSTANT
                         THEN MAX_LINEAR_SPRING_CONSTANT ELSE k,
                !.sim_index = NO_SIM_INDEX]

\* A variant with the upper clamp left out.
position_set_k_no_upper_clamp(obj, k) ==
    [obj EXCEPT !.spring_constant = IF k < 0 THEN 0 ELSE k]

\* Position_Restraint::set_k: the restraint after the call.
position_set_k(obj, k) ==
    [obj EXCEPT !.spring_constant =
        IF k < 0 THEN 0
        ELSE IF k > MAX_LINEAR_SPRING_CONSTANT THEN MAX_LINEAR_SPRING_CONSTANT ELSE k]

PositionSetK(r, k) ==
    /\ prestraint[r].live
    /\ prestraint' = [prestraint EXCEPT ![r] = position_set_k(@, k)]
    /\ LET does == position_set_k_tracks(prestraint[r], k)
       IN  /\ tracker' = tracked(tracker, does, POSITION_MGR, r,
                                 REASON_SPRING_CONSTANT_CHANGED)
           /\ ret' = Ret("set_k", <<r, k, does>>, FALSE)
    /\ UNCHANGED <<_atom_to_restraint, hostVars, engineVars, dihedralVars, distanceVars>>

\* Position_Restraint::set_enabled
PositionSetEnabled(r, flag) ==
    /\ prestraint[r].live
    /\ prestraint' = [prestraint EXCEPT ![r].enabled = flag]
    /\ LET does == position_set_enabled_tracks(prestraint[r], flag)
       IN  /\ tracker' = tracked(tracker, does, POSITION_MGR, r, REASON_ENABLED_CHANGED)
           /\ ret' = Ret("set_enabled", <<r, flag, does>>, FALSE)
    /\ UNCHANGED <<_atom_to_restraint, hostVars, engineVars, dihedralVars, distanceVars>>

\* Sim_Restraint_Base::set_sim_index and clear_sim_index: the object after
\* the call.
set_sim_index(obj, index) == [obj EXCEPT !.sim_index = index]

\* A variant of clear_sim_index that leaves the slot as it is.
clear_sim_index_keeps(obj) == obj

clear_sim_index(obj) == [obj EXCEPT !.sim_index = NO_SIM_INDEX]

\* The simulation driver stores the index of a position restraint.
PositionSetSimIndex(r, index) ==
    /\ prestraint[r].live
    /\ prestraint' = [prestraint EXCEPT ![r] = set_sim_index(@, index)]
    /\ ret' = Ret("set_sim_index", <<r, index>>, FALSE)
    /\ UNCHANGED <<_atom_to_restraint, tracker, hostVars, engineVars, dihedralVars, distanceVars>>

\* The simulation driver resets the slot of a position restraint.
PositionClearSimIndex(r) ==
    /\ prestraint[r].live
    /\ prestraint' = [prestraint EXCEPT ![r] = clear_sim_index(@)]
    /\ ret' = Ret("clear_sim_index", r, FALSE)
    /\ UNCHANGED <<_atom_to_restraint, tracker, hostVars, engineVars, dihedralVars, distanceVars>>

\* A variant of visible() that leaves the enabled flag out.
position_visible_ignores_enabled(obj) == visible[obj.atom]

\* Position_Restraint::visible
position_visible(obj) == visible[obj.atom] /\ obj.enabled

\* Position_Restraint_Mgr_Base::visible_restraints: the restraints of the map
\* that are visible.
visible_restraints(amap, heap) ==
    { amap[a] : a \in { x \in DOMAIN amap : position_visible(heap[amap[x]]) } }

VisibleRestraints ==
    /\ ret' = Ret("visible_restraints", visible_restraints(_atom_to_restraint, prestraint), FALSE)
    /\ UNCHANGED <<positionVars, tracker, hostVars, engineVars, dihedralVars, distanceVars>>

PositionRestraintPtr(r) == <<"position restraint", r>>
DistanceRestraintPtr(r) == <<"distance restraint", r>>

\* A variant that empties the map instead of erasing the atoms of to_delete.
delete_restraints_map_clear(amap, heap, to_delete) == EmptyMap

\* Position_Restraint_Mgr_Base::_delete_restraints: the map and the heap after
\* erasing r->atom() and deleting r, for each r of to_delete.
delete_restraints_map(amap, heap, to_delete) ==
    MapDrop(amap, { heap[r].atom : r \in to_delete })
delete_restraints_heap(heap, to_delete) ==
    [r \in RestraintIds |-> IF r \in to_delete THEN NoRestraint ELSE heap[r]]

\* A variant that finds nothing to delete.
position_to_delete_none(amap, heap, S) == {}

\* A variant that compares the destroyed identities with the atoms by their
\* number only, whatever kind of object the identity belongs to.
position_to_delete_any_kind(amap, heap, S) ==
    { amap[a] : a \in { x \in DOMAIN amap : heap[amap[x]].atom \in { p[2] : p \in S } } }

\* Position_Restraint_Mgr_Base::destructors_done: the restraints to delete.
position_to_delete(amap, heap, S) ==
    { amap[a] : a \in { x \in DOMAIN amap : AtomPtr(heap[amap[x]].atom) \in S } }

\* Position_Restraint_Mgr_Base::destructors_done: the manager after the purge.
position_destructors_done(amap, heap, S) ==
    LET to_delete == position_to_delete(amap, heap, S)
    IN  [map  |-> delete_restraints_map(amap, heap, to_delete),
         heap |-> delete_restraints_heap(heap, to_delete)]

\* The destruction notification ~Position_Restraint raises for each deleted
\* restraint comes back to the manager when the batch ends.
position_purge(amap, heap, S) ==
    LET first == position_destructors_done(amap, heap, S)
        gone  == { r \in RestraintIds : heap[r].live /\ ~first.heap[r].live }
    IN  IF gone = {} THEN first
        ELSE position_destructors_done(first.map, first.heap,
                                       { PositionRestraintPtr(r) : r \in gone })

\* delete_restraints(to_delete)
DeleteRestraints(to_delete) ==
    /\ to_delete /= {}
    /\ \A r \in to_delete : prestraint[r].live
    /\ LET amap == delete_restraints_map(_atom_to_restraint, prestraint, to_delete)
           heap == delete_restraints_heap(prestraint, to_delete)
           after == position_destructors_done(amap, heap,
                        { PositionRestraintPtr(r) : r \in to_delete })
       IN  /\ _atom_to_restraint' = after.map
           /\ prestraint' = after.heap
    /\ ret' = Ret("delete_restraints", Cardinality(to_delete), FALSE)
    /\ UNCHANGED <<tracker, hostVars, engineVars, dihedralVars, distanceVars>>

(***************************************************************************)
(* Distance_Restraint and Distance_Restraint_Mgr                           *)
(***************************************************************************)
\* Distance_Restraint(a1, a2, mgr): throws std::logic_error when a bond of a1
\* has a2 among its atoms.
Distance_Restraint_throws(a1, a2) == \E b \in bonds(a1) : a2 \in b

\* The member initialisers of Distance_Restraint.
DEFAULT_DISTANCE_TARGET == MIN_DISTANCE_RESTRAINT_TARGET
Distance_Restraint(a1, a2) ==
    [live |-> TRUE, atoms |-> <<a1, a2>>, target |-> DEFAULT_DISTANCE_TARGET,
     spring_constant |-> 0, enabled |-> FALSE, sim_index |-> NO_SIM_INDEX]

FreeDistanceIds == { r \in RestraintIds : ~drestraint[r].live }
LowestFreeDistance ==
    CHOOSE r \in FreeDistanceIds : \A e \in FreeDistanceIds : r <= e

\* A variant that stores the target as given.
distance_set_target_unclamped(obj, target) == [obj EXCEPT !.target = target]

\* Distance_Restraint::set_target: the restraint after the call.
distance_set_target(obj, target) ==
    [obj EXCEPT !.target =
        IF target < MIN_DISTANCE_RESTRAINT_TARGET THEN MIN_DISTANCE_RESTRAINT_TARGET
        ELSE target]

\* Distance_Restraint::set_k: the restraint after the call.
distance_set_k(obj, k) ==
    [obj EXCEPT !.spring_constant =
        IF k < 0 THEN 0
        ELSE IF k > MAX_LINEAR_SPRING_CONSTANT THEN MAX_LINEAR_SPRING_CONSTANT ELSE k]

\* Distance_Restraint::set_enabled: the restraint after the call, and whether
\* the call records a change.
distance_set_enabled(obj, flag) == [obj EXCEPT !.enabled = flag]
distance_set_enabled_tracks(obj, flag) == obj.enabled /= flag

\* Distance_Restraint::set_target and set_k call track_change in every call.
distance_set_target_tracks(obj, target) == TRUE
distance_set_k_tracks(obj, k) == TRUE

\* Distance_Restraint(a1, a2, mgr, target, k)
Distance_Restraint_with(a1, a2, target, k) ==
    distance_set_enabled(
        distance_set_k(distance_set_target(Distance_Restraint(a1, a2), target), k),
        FALSE)

\* Distance_Restraint_Mgr::get_restraint: the restraint registered for the
\* pair, or Null.
find_distance_restraint(regs, heap, a1, a2) ==
    LET hits == { r \in regs : { heap[r].atoms[1], heap[r].atoms[2] } = {a1, a2} }
    IN  IF hits = {} THEN Null ELSE CHOOSE r \in hits : TRUE

\* Distance_Restraint_Mgr::_new_restraint: which check throws, if any.
new_distance_restraint_error(a1, a2) ==
    IF structure(a1) /= ModelStructure \/ structure(a2) /= ModelStructure
    THEN "wrong structure"
    ELSE IF Distance_Restraint_throws(a1, a2) THEN "bonded"
    ELSE "none"

num_distance_restraints == Cardinality(_restraints)

\* distance_restraint_mgr_get_restraint(mgr, atoms, create)
GetDistanceRestraint(a1, a2, create) ==
    /\ AtomAlive(a1) /\ AtomAlive(a2)
    /\ LET found == find_distance_restraint(_restraints, drestraint, a1, a2)
       IN  IF found /= Null \/ ~create
           THEN /\ ret' = Ret("distance get_restraint", found, FALSE)
                /\ UNCHANGED <<distanceVars, tracker>>
           ELSE IF new_distance_restraint_error(a1, a2) /= "none"
           THEN /\ ret' = Ret("distance get_restraint", Null, TRUE)
                /\ UNCHANGED <<distanceVars, tracker>>
           ELSE /\ FreeDistanceIds /= {}
                /\ LET r == LowestFreeDistance
                   IN  /\ drestraint' = [drestraint EXCEPT ![r] = Distance_Restraint(a1, a2)]
                       /\ _restraints' = _restraints \cup {r}
                       /\ tracker' = track_created(tracker, DISTANCE_MGR, r)
                       /\ ret' = Ret("distance get_restraint", r, FALSE)
    /\ UNCHANGED <<hostVars, engineVars, dihedralVars, positionVars>>

\* new Distance_Restraint(a1, a2, mgr, target, k)
ConstructDistanceRestraint(a1, a2, target, k) ==
    /\ AtomAlive(a1) /\ AtomAlive(a2)
    /\ IF Distance_Restraint_throws(a1, a2)
       THEN /\ ret' = Ret("Distance_Restraint", Null, TRUE)
            /\ UNCHANGED <<distanceVars, tracker>>
       ELSE /\ FreeDistanceIds /= {}
            /\ LET r == LowestFreeDistance
               IN  /\ drestraint' =
                          [drestraint EXCEPT ![r] = Distance_Restraint_with(a1, a2, target, k)]
                   /\ tracker' = track_change(
                          track_change(tracker, DISTANCE_MGR, r, REASON_TARGET_CHANGED),
                          DISTANCE_MGR, r, REASON_SPRING_CONSTANT_CHANGED)
                   /\ ret' = Ret("Distance_Restraint", r, FALSE)
            /\ UNCHANGED _restraints
    /\ UNCHANGED <<hostVars, engineVars, dihedralVars, positionVars>>

DistanceSetTarget(r, target) ==
    /\ drestraint[r].live
    /\ drestraint' = [drestraint EXCEPT ![r] = distance_set_target(@, target)]
    /\ LET does == distance_set_target_tracks(drestraint[r], target)
       IN  /\ tracker' = tracked(tracker, does, DISTANCE_MGR, r, REASON_TARGET_CHANGED)
           /\ ret' = Ret("distance set_target", <<r, target, does>>, FALSE)
    /\ UNCHANGED <<_restraints, hostVars, engineVars, dihedralVars, positionVars>>

DistanceSetK(r, k) ==
    /\ drestraint[r].live
    /\ drestraint' = [drestraint EXCEPT ![r] = distance_set_k(@, k)]
    /\ LET does == distance_set_k_tracks(drestraint[r], k)
       IN  /\ tracker' = tracked(tracker, does, DISTANCE_MGR, r,
                                 REASON_SPRING_CONSTANT_CHANGED)
           /\ ret' = Ret("distance set_k", <<r, k, does>>, FALSE)
    /\ UNCHANGED <<_restraints, hostVars, engineVars, dihedralVars, positionVars>>

DistanceSetEnabled(r, flag) ==
    /\ drestraint[r].live
    /\ drestraint' = [drestraint EXCEPT ![r] = distance_set_enabled(@, flag)]
    /\ LET does == distance_set_enabled_tracks(drestraint[r], flag)
       IN  /\ tracker' = tracked(tracker, does, DISTANCE_MGR, r, REASON_ENABLED_CHANGED)
           /\ ret' = Ret("distance set_enabled", <<r, flag, does>>, FALSE)
    /\ UNCHANGED <<_restraints, hostVars, engineVars, dihedralVars, positionVars>>

\* The simulation driver stores and resets the index of a distance restraint.
DistanceSetSimIndex(r, index) ==
    /\ drestraint[r].live
    /\ drestraint' = [drestraint EXCEPT ![r] = set_sim_index(@, index)]
    /\ ret' = Ret("distance set_sim_index", <<r, index>>, FALSE)
    /\ UNCHANGED <<_restraints, tracker, hostVars, engineVars, dihedralVars, positionVars>>

DistanceClearSimIndex(r) ==
    /\ drestraint[r].live
    /\ drestraint' = [drestraint EXCEPT ![r] = clear_sim_index(@)]
    /\ ret' = Ret("distance clear_sim_index", r, FALSE)
    /\ UNCHANGED <<_restraints, tracker, hostVars, engineVars, dihedralVars, positionVars>>

\* Distance_Restraint::visible
distance_visible(obj) ==
    visible[obj.atoms[1]] /\ visible[obj.atoms[2]] /\ obj.enabled

\* Distance_Restraint_Mgr::visible_restraints
distance_visible_restraints(regs, heap) ==
    { r \in regs : distance_visible(heap[r]) }

DistanceVisibleRestraints ==
    /\ ret' = Ret("distance visible_restraints",
                  distance_visible_restraints(_restraints, drestraint), FALSE)
    /\ UNCHANGED <<distanceVars, tracker, hostVars, engineVars, dihedralVars, positionVars>>

\* Distance_Restraint_Mgr::destructors_done: the restraints with a destroyed
\* atom are removed and deleted.
distance_destructors_done(regs, heap, S) ==
    LET gone == { r \in regs : \E i \in 1..2 : AtomPtr(heap[r].atoms[i]) \in S }
    IN  [regs |-> regs \ gone,
         heap |-> [r \in RestraintIds |-> IF r \in gone THEN NoRestraint ELSE heap[r]]]

(***************************************************************************)
(* The host: destruction of atoms and residues, simulation steps           *)
(***************************************************************************)
DestroyBatches(ptrs) ==
    { S \in SUBSET ptrs : S /= {} /\ Cardinality(destroyed \cup S) <= MaxDestroyed }
AliveAtomPtrs == { AtomPtr(a) : a \in { x \in AtomIds : AtomAlive(x) } }
AliveResiduePtrs == { ResiduePtr(r) : r \in { x \in ResidueIds : ResidueAlive(x) } }

\* The host destroys the identities of S; when the batch ends every
\* DestructionObserver gets destructors_done(S).
Destroy(S) ==
    /\ S /= {} /\ S \subseteq AliveAtomPtrs \cup AliveResiduePtrs
    /\ destroyed' = destroyed \cup S
    /\ _residue_map' = destructors_done_map(_residue_map, S)
    /\ _dihedrals' = destructors_done_list(_dihedrals, S)
    /\ LET after == position_purge(_atom_to_restraint, prestraint, S)
       IN  /\ _atom_to_restraint' = after.map
           /\ prestraint' = after.heap
    /\ LET after == distance_destructors_done(_restraints, drestraint, S)
       IN  /\ _restraints' = after.regs
           /\ drestraint' = after.heap
    /\ ret' = Ret("destructors_done", Null, FALSE)
    /\ UNCHANGED <<dihedral, _residue_name_map, coord, visible, tracker, engineVars>>

\* A simulation step moves the atoms.
MoveAtoms ==
    /\ coord' = [a \in AllAtomIds |-> 1 - coord[a]]
    /\ ret' = Ret("move", Null, FALSE)
    /\ UNCHANGED <<destroyed, visible, dihedralVars, positionVars, distanceVars, tracker, engineVars>>

\* The host shows or hides an atom (Atom::visible()).
SetVisible(a, flag) ==
    /\ AtomAlive(a)
    /\ visible' = [visible EXCEPT ![a] = flag]
    /\ ret' = Ret("set_visible", Null, FALSE)
    /\ UNCHANGED <<destroyed, coord, dihedralVars, positionVars, distanceVars, tracker, engineVars>>

\* Change_Tracker::clear
ClearTracker ==
    /\ tracker' = clear(tracker)
    /\ ret' = Ret("clear", Null, FALSE)
    /\ UNCHANGED <<hostVars, engineVars, dihedralVars, positionVars, distanceVars>>

(***************************************************************************)
(* RegularGridInterpolator                                                 *)
(*                                                                         *)
(* Axis values and data are integers.  An interpolated value is the exact  *)
(* fraction num/den, den the product of the axis steps.                    *)
(***************************************************************************)
MaxAxisLen == 3

Clamp(x, lo, hi) == IF x < lo THEN lo ELSE IF x > hi THEN hi ELSE x

RECURSIVE Product(_, _)
\* n[a] * ... * n[Len(n)]
Product(n, a) == IF a > Len(n) THEN 1 ELSE n[a] * Product(n, a + 1)

NoInterpolator ==
    [dim |-> 0, n |-> <<>>, min |-> <<>>, max |-> <<>>, step |-> <<>>, data |-> <<>>]

\* RegularGridInterpolator(dim, n, min, max, data): one data value per grid point.
RegularGridInterpolator(dim, n, min, max, data) ==
    [dim |-> dim, n |-> n, min |-> min, max |-> max,
     step |-> [a \in 1..dim |-> (max[a] - min[a]) \div (n[a] - 1)],
     data |-> data]

\* _jump: the distance in the flat data array between neighbours along axis a.
_jump(g, a) == Product(g.n, a + 1)

\* The data value of the grid point with the (0-based) per-axis indices idx.
RECURSIVE flat_index(_, _, _)
flat_index(g, idx, a) ==
    IF a > g.dim THEN 1 ELSE idx[a] * _jump(g, a) + flat_index(g, idx, a + 1)
data_at(g, idx) == g.data[flat_index(g, idx, 1)]

\* lb_index_and_offsets with offsets measured from the query itself (it
\* extrapolates outside the grid).
lb_index_and_offsets_extrapolating(g, axis_vals) ==
    [a \in 1..g.dim |->
        LET li  == Clamp((axis_vals[a] - g.min[a]) \div g.step[a], 0, g.n[a] - 2)
            low == g.min[a] + li * g.step[a]
        IN  [lb |-> li, offset |-> <<axis_vals[a] - low, low + g.step[a] - axis_vals[a]>>]]

\* lb_index_and_offsets: per axis the index of the cell's lower grid point,
\* floor((x - min) / step) clamped to the cells of the grid, and the distances
\* of the query, clamped to [min, max], from the cell's lower and upper planes.
lb_index_and_offsets(g, axis_vals) ==
    [a \in 1..g.dim |->
        LET x   == Clamp(axis_vals[a], g.min[a], g.max[a])
            li  == Clamp((x - g.min[a]) \div g.step[a], 0, g.n[a] - 2)
            low == g.min[a] + li * g.step[a]
        IN  [lb |-> li, offset |-> <<x - low, low + g.step[a] - x>>]]

\* _interpolate1d with the two weights exchanged.
_interpolate1d_swapped(offset, lower, upper) == lower * offset[1] + upper * offset[2]

\* _interpolate1d: the linear blend of the two ends, weighted by the distance
\* to the other end (times the step: the division is left to the denominator).
_interpolate1d(offset, lower, upper) == lower * offset[2] + upper * offset[1]

\* _interpolate: the corner values of the cell collapsed one axis at a time.
RECURSIVE _interpolate(_, _, _, _)
_interpolate(g, cell, idx, a) ==
    IF a > g.dim THEN data_at(g, idx)
    ELSE _interpolate1d(cell[a].offset,
             _interpolate(g, cell, [idx EXCEPT ![a] = cell[a].lb], a + 1),
             _interpolate(g, cell, [idx EXCEPT ![a] = cell[a].lb + 1], a + 1))

\* RegularGridInterpolator::interpolate for one query point.
interpolate(g, axis_vals) ==
    [num |-> _interpolate(g, lb_index_and_offsets(g, axis_vals),
                          [a \in 1..g.dim |-> 0], 1),
     den |-> Product(g.step, 1)]

\* Grids the caller constructs: every axis has at least two points and a whole
\* step; the data follow one of a few patterns.
AxisLens == 2..MaxAxisLen
DataPatterns == 0..3
PatternData(k, len) == [i \in 1..len |-> (i * (k + 1) + k * (i \div 2)) % 5]
AxisShapes == { <<lo, st>> : lo \in {0 - 1, 0}, st \in {1, 2} }
GridInputs ==
    { <<1, <<n>>, <<sh[1]>>, <<sh[1] + sh[2] * (n - 1)>>, PatternData(k, n)>> :
        n \in AxisLens, sh \in AxisShapes, k \in DataPatterns } \cup
    { <<2, <<n1, n2>>, <<sh[1], 0>>, <<sh[1] + sh[2] * (n1 - 1), (3 - sh[2]) * (n2 - 1)>>,
        PatternData(k, n1 * n2)>> :
        n1 \in AxisLens, n2 \in AxisLens, sh \in AxisShapes, k \in DataPatterns }
QueryCoords == (0 - 3)..(2 * MaxAxisLen)
QueryInputs(dim) == IF dim = 1 THEN { <<x>> : x \in QueryCoords }
                    ELSE { <<x, y>> : x \in QueryCoords, y \in QueryCoords }

NewInterpolator(dim, n, min, max, data) ==
    /\ interpolator' = RegularGridInterpolator(dim, n, min, max, data)
    /\ ret' = Ret("RegularGridInterpolator", Null, FALSE)
    /\ UNCHANGED <<_interpolators, _cutoffs, force, rota_mgr>>
    /\ UNCHANGED <<hostVars, dihedralVars, positionVars, distanceVars, tracker>>

Interpolate(axis_vals) ==
    /\ interpolator /= NoInterpolator
    /\ Len(axis_vals) = interpolator.dim
    /\ ret' = Ret("interpolate", <<axis_vals, interpolate(interpolator, axis_vals)>>, FALSE)
    /\ UNCHANGED <<hostVars, engineVars, dihedralVars, positionVars, distanceVars, tracker>>

(***************************************************************************)
(* Rama_Mgr and its entry points in molc.cpp                               *)
(*                                                                         *)
(* A score is an exact fraction num/den in tenths: 1.0 is 10/1.  A Rama is *)
(* the pair of its residue's case and its (phi, psi) angles.               *)
(***************************************************************************)
NO_RAMA_SCORE == 0 - 10
Score(v) == [num |-> v, den |-> 1]
RamaCases == {1, 2}
Rama(rcase, angles) == [rcase |-> rcase, angles |-> angles]

\* Rama_Mgr::rama_case
rama_case(rama) == rama.rcase

\* Rama_Mgr::add_interpolator: the grid of the case is built and stored,
\* replacing the one it had.
add_interpolator(interps, r_case, dim, n, min, max, data) ==
    MapPut(interps, r_case, RegularGridInterpolator(dim, n, min, max, data))

\* Rama_Mgr::set_cutoffs / get_cutoffs
set_cutoffs(cutoffs, r_case, allowed, outlier) ==
    MapPut(cutoffs, r_case, [allowed |-> allowed, outlier |-> outlier])
get_cutoffs(cutoffs, r_case) == cutoffs[r_case]

\* rama_mgr_get_cutoffs writing the outlier cutoff first.
rama_mgr_get_cutoffs_swapped(cutoffs, r_case) ==
    LET c == get_cutoffs(cutoffs, r_case) IN <<c.outlier, c.allowed>>

\* rama_mgr_get_cutoffs: cutoffs[0] = c->allowed; cutoffs[1] = c->outlier
rama_mgr_get_cutoffs(cutoffs, r_case) ==
    LET c == get_cutoffs(cutoffs, r_case) IN <<c.allowed, c.outlier>>

\* Rama_Mgr::validate for one residue: the interpolated value of its case's
\* grid at its angles, or the no-score marker when the case has no grid.
validate(interps, rama) ==
    IF rama_case(rama) \in DOMAIN interps
    THEN interpolate(interps[rama_case(rama)], rama.angles)
    ELSE Score(NO_RAMA_SCORE)

\* Rama_Mgr::validate(rama, n, scores, r_cases)
validate_batch(interps, ramas) ==
    [i \in 1..Len(ramas) |->
        [score |-> validate(interps, ramas[i]), rcase |-> rama_case(ramas[i])]]

\* A validate that leaves the residues without a grid out of its output.
RECURSIVE validate_by_residue_skipping(_, _)
validate_by_residue_skipping(interps, ramas) ==
    IF ramas = <<>> THEN <<>>
    ELSE (IF rama_case(Head(ramas)) \in DOMAIN interps
          THEN << [score |-> validate(interps, Head(ramas)),
                   rcase |-> rama_case(Head(ramas))] >>
          ELSE <<>>) \o validate_by_residue_skipping(interps, Tail(ramas))

\* rama_mgr_validate_by_residue: *score++ = m->validate(*r);
\* *rcase++ = m->rama_case(*r++) for each of the n residues.
rama_mgr_validate_by_residue(interps, ramas) ==
    [i \in 1..Len(ramas) |->
        [score |-> validate(interps, ramas[i]), rcase |-> rama_case(ramas[i])]]

\* rama_mgr_validate: m->validate(r, n, score, rcase)
rama_mgr_validate(interps, ramas) == validate_batch(interps, ramas)

\* Is the entry scored: does it carry an interpolated value?
scored(score) == score /= Score(NO_RAMA_SCORE)

\* bin_score that never answers NA.
bin_score_without_na(cutoffs, score, r_case) ==
    IF r_case \notin DOMAIN cutoffs THEN "OUTLIER"
    ELSE IF score.num >= cutoffs[r_case].allowed * score.den THEN "FAVORED"
    ELSE IF score.num > cutoffs[r_case].outlier * score.den THEN "ALLOWED"
    ELSE "OUTLIER"

\* Rama_Mgr::bin_score: the bin of the score by the cutoffs of its case, NA for a
\* case without cutoffs.
bin_score(cutoffs, score, r_case) ==
    IF r_case \notin DOMAIN cutoffs THEN "NA"
    ELSE IF score.num >= cutoffs[r_case].allowed * score.den THEN "FAVORED"
    ELSE IF score.num > cutoffs[r_case].outlier * score.den THEN "ALLOWED"
    ELSE "OUTLIER"

\* rama_mgr_bin_scores reading the case of the first entry for every entry.
rama_mgr_bin_scores_first_case(cutoffs, scores, cases) ==
    [i \in 1..Len(scores) |-> bin_score(cutoffs, scores[i], cases[1])]

\* rama_mgr_bin_scores: *bin++ = m->bin_score(*score++, *r_case++), n times
rama_mgr_bin_scores(cutoffs, scores, cases) ==
    [i \in 1..Len(scores) |-> bin_score(cutoffs, scores[i], cases[i])]

\* Rama_Mgr::color_by_scores: the not-applicable colour for an unscored entry
\* and for a case without cutoffs, else the colour on the ramp; a ramp colour
\* is kept as the segment of the ramp it lies on.
NA_COLOR == <<"na", "NA">>
color_by_scores(cutoffs, scores, cases) ==
    [i \in 1..Len(scores) |->
        IF ~scored(scores[i]) \/ cases[i] \notin DOMAIN cutoffs THEN NA_COLOR
        ELSE <<"ramp", bin_score(cutoffs, scores[i], cases[i])>>]

\* rama_mgr_validate_and_color colouring its zero-filled score buffer.
rama_mgr_validate_and_color_unvalidated(interps, cutoffs, ramas) ==
    color_by_scores(cutoffs, [i \in 1..Len(ramas) |-> Score(0)],
                             [i \in 1..Len(ramas) |-> rama_case(ramas[i])])

\* rama_mgr_validate_and_color: validate, then color_by_scores
rama_mgr_validate_and_color(interps, cutoffs, ramas) ==
    LET v == validate_batch(interps, ramas)
    IN  color_by_scores(cutoffs, [i \in 1..Len(v) |-> v[i].score],
                                 [i \in 1..Len(v) |-> v[i].rcase])

\* The Ramachandran grids: counts (3, 3) over [-pi, pi] x [-pi, pi], one uniform
\* at 1.0 and one that is not.
RamaCounts == <<3, 3>>
UniformData == [i \in 1..Product(RamaCounts, 1) |-> 10]
SlopedData == [i \in 1..Product(RamaCounts, 1) |-> i]
RamaGrids == { UniformData, SlopedData }
RamaAngles == {0 - M_PI - 1, 0 - M_PI, 0 - 1, 0, 2, M_PI, M_PI + 1}
CutoffInputs == {1, 5, 10}

RamaAddInterpolator(r_case, dim, n, min, max, data) ==
    /\ _interpolators' = add_interpolator(_interpolators, r_case, dim, n, min, max, data)
    /\ ret' = Ret("add_interpolator", Null, FALSE)
    /\ UNCHANGED <<interpolator, _cutoffs, force, rota_mgr>>
    /\ UNCHANGED <<hostVars, dihedralVars, positionVars, distanceVars, tracker>>

RamaSetCutoffs(r_case, allowed, outlier) ==
    /\ _cutoffs' = set_cutoffs(_cutoffs, r_case, allowed, outlier)
    /\ ret' = Ret("set_cutoffs", Null, FALSE)
    /\ UNCHANGED <<interpolator, _interpolators, force, rota_mgr>>
    /\ UNCHANGED <<hostVars, dihedralVars, positionVars, distanceVars, tracker>>

RamaGetCutoffs(r_case) ==
    /\ r_case \in DOMAIN _cutoffs
    /\ ret' = Ret("get_cutoffs", <<r_case, rama_mgr_get_cutoffs(_cutoffs, r_case)>>, FALSE)
    /\ UNCHANGED <<hostVars, engineVars, dihedralVars, positionVars, distanceVars, tracker>>

RamaValidate(ramas) ==
    /\ ret' = Ret("validate", <<ramas, rama_mgr_validate(_interpolators, ramas)>>, FALSE)
    /\ UNCHANGED <<hostVars, engineVars, dihedralVars, positionVars, distanceVars, tracker>>

RamaValidateByResidue(ramas) ==
    /\ ret' = Ret("validate_by_residue",
                  <<ramas, rama_mgr_validate_by_residue(_interpolators, ramas)>>, FALSE)
    /\ UNCHANGED <<hostVars, engineVars, dihedralVars, positionVars, distanceVars, tracker>>

RamaBinScores(scores, cases) ==
    /\ ret' = Ret("bin_scores",
                  <<scores, cases, rama_mgr_bin_scores(_cutoffs, scores, cases)>>, FALSE)
    /\ UNCHANGED <<hostVars, engineVars, dihedralVars, positionVars, distanceVars, tracker>>

RamaValidateAndColor(ramas) ==
    /\ ret' = Ret("validate_and_color",
                  <<ramas, rama_mgr_validate_and_color(_interpolators, _cutoffs, ramas)>>,
                  FALSE)
    /\ UNCHANGED <<hostVars, engineVars, dihedralVars, positionVars, distanceVars, tracker>>

(***************************************************************************)
(* OpenMM custom forces and the bulk entry points of custom_forces.cpp     *)
(*                                                                         *)
(* A force is its kind, its number of per-term parameters and the list of  *)
(* its terms (bonds, particles or torsions); term i of OpenMM is terms[i+1]*)
(***************************************************************************)
MaxTerms == 3
NoForce == [kind |-> "", n_params |-> 0, terms |-> <<>>]
ForceKinds == {"CustomBondForce", "CustomCompoundBondForce", "CustomExternalForce",
               "CustomTorsionForce"}

\* The particles of one term: p1 and p2 of a bond, getNumParticlesPerBond() of
\* a compound bond (three here), one of an external force, four of a torsion.
n_particles(f) ==
    CASE f.kind = "CustomBondForce" -> 2
      [] f.kind = "CustomCompoundBondForce" -> 3
      [] f.kind = "CustomExternalForce" -> 1
      [] f.kind = "CustomTorsionForce" -> 4
      [] OTHER -> 0

\* OpenMM addBond / addParticle / addTorsion: the term is appended and its
\* index returned.
addTerm(terms, particles, param_vec) ==
    [terms |-> Append(terms, [particles |-> particles, params |-> param_vec]),
     index |-> Len(terms)]

\* OpenMM get...Parameters / set...Parameters throw for an index without term.
valid_index(terms, index) == 0 <= index /\ index < Len(terms)
setParameters(terms, index, particles, param_vec) ==
    [terms EXCEPT ![index + 1] = [particles |-> particles, params |-> param_vec]]

\* The i-th group of `width` consecutive elements of a flat array.
Group(array, i, width) == SubSeq(array, (i - 1) * width + 1, i * width)

\* An add loop that reads the parameters of the first item for every item.
RECURSIVE add_to_force_first_params(_, _, _, _, _)
add_to_force_first_params(f, n, p_indices, params, i) ==
    IF i > n THEN [force |-> f, f_indices |-> <<>>]
    ELSE LET added == addTerm(f.terms, Group(p_indices, i, n_particles(f)),
                              Group(params, 1, f.n_params))
             rest  == add_to_force_first_params([f EXCEPT !.terms = added.terms],
                                                n, p_indices, params, i + 1)
         IN  [force |-> rest.force, f_indices |-> <<added.index>> \o rest.f_indices]

\* custombondforce_add_bonds, customcompoundbondforce_add_bonds,
\* customexternalforce_add_particles, customtorsionforce_add_torsions, from item
\* i on: read the item's parameters and particles, add the term, write its index.
RECURSIVE add_to_force(_, _, _, _, _)
add_to_force(f, n, p_indices, params, i) ==
    IF i > n THEN [force |-> f, f_indices |-> <<>>]
    ELSE LET added == addTerm(f.terms, Group(p_indices, i, n_particles(f)),
                              Group(params, i, f.n_params))
             rest  == add_to_force([f EXCEPT !.terms = added.terms],
                                   n, p_indices, params, i + 1)
         IN  [force |-> rest.force, f_indices |-> <<added.index>> \o rest.f_indices]

\* An update loop that writes the first tuple to every index.
RECURSIVE update_parameters_first_tuple(_, _, _, _, _)
update_parameters_first_tuple(f, n, indices, params, i) ==
    IF i > n THEN [force |-> f, err |-> FALSE]
    ELSE IF ~valid_index(f.terms, indices[i]) THEN [force |-> f, err |-> TRUE]
    ELSE update_parameters_first_tuple(
             [f EXCEPT !.terms = setParameters(f.terms, indices[i],
                                     f.terms[indices[i] + 1].particles,
                                     Group(params, 1, f.n_params))],
             n, indices, params, i + 1)

\* custombondforce_update_bond_parameters and its three siblings, from item i
\* on: get the term's particles and parameters, overwrite the parameters with
\* the item's, set them; an exception of OpenMM ends the loop (molc_error).
RECURSIVE update_parameters(_, _, _, _, _)
update_parameters(f, n, indices, params, i) ==
    IF i > n THEN [force |-> f, err |-> FALSE]
    ELSE IF ~valid_index(f.terms, indices[i]) THEN [force |-> f, err |-> TRUE]
    ELSE update_parameters(
             [f EXCEPT !.terms = setParameters(f.terms, indices[i],
                                     f.terms[indices[i] + 1].particles,
                                     Group(params, i, f.n_params))],
             n, indices, params, i + 1)

\* The arrays the simulation driver passes.
RECURSIVE FlatArrays(_, _)
FlatArrays(values, len) ==
    IF len = 0 THEN { <<>> }
    ELSE { <<v>> \o rest : v \in values, rest \in FlatArrays(values, len - 1) }
BatchSizes == 0..2
ParamTuples(f) == IF f.n_params = 2 THEN { <<1, 2>>, <<2, 1>> } ELSE { <<1>>, <<2>> }
RECURSIVE Concatenations(_, _)
Concatenations(tuples, n) ==
    IF n = 0 THEN { <<>> }
    ELSE { t \o rest : t \in tuples, rest \in Concatenations(tuples, n - 1) }
ParticleStarts == {0, 1}
ParticleArray(f, starts) ==
    [j \in 1..(Len(starts) * n_particles(f)) |->
        starts[((j - 1) \div n_particles(f)) + 1] + ((j - 1) % n_particles(f))]
ParticleArrays(f) ==
    UNION { { ParticleArray(f, st) : st \in FlatArrays(ParticleStarts, n) } : n \in BatchSizes }
ParamArrays(f) == UNION { Concatenations(ParamTuples(f), n) : n \in BatchSizes }
BatchSize(params) == IF force = NoForce THEN 0 ELSE Len(params) \div force.n_params
IndexArrays == UNION { FlatArrays(0..MaxTerms, n) : n \in BatchSizes }

\* The simulation driver creates the force (OpenMM, outside this code).
NewForce(kind, n_params) ==
    /\ force = NoForce
    /\ force' = [kind |-> kind, n_params |-> n_params, terms |-> <<>>]
    /\ ret' = Ret("new_force", Null, FALSE)
    /\ UNCHANGED <<validatorVars, rota_mgr, hostVars, dihedralVars, positionVars, distanceVars, tracker>>

AddToForce(n, p_indices, params) ==
    /\ force /= NoForce
    /\ Len(p_indices) = n * n_particles(force) /\ Len(params) = n * force.n_params
    /\ Len(force.terms) + n <= MaxTerms
    /\ LET done == add_to_force(force, n, p_indices, params, 1)
       IN  /\ force' = done.force
           /\ ret' = Ret("add_to_force", done.f_indices, FALSE)
    /\ UNCHANGED <<validatorVars, rota_mgr, hostVars, dihedralVars, positionVars, distanceVars, tracker>>

UpdateForceParameters(n, indices, params) ==
    /\ force /= NoForce
    /\ Len(indices) = n /\ Len(params) = n * force.n_params
    /\ LET done == update_parameters(force, n, indices, params, 1)
       IN  /\ force' = done.force
           /\ ret' = Ret("update_parameters", Null, done.err)
    /\ UNCHANGED <<validatorVars, rota_mgr, hostVars, dihedralVars, positionVars, distanceVars, tracker>>

(***************************************************************************)
(* The extern "C" entry points of the Python interface                     *)
(***************************************************************************)
\* The Dihedral_Mgr as a value: the heap of its dihedrals, the owned list and
\* the index.
DihedralMgr == [heap |-> dihedral, list |-> _dihedrals, rmap |-> _residue_map]

\* The outcome of a manager call: the manager after it, the value returned,
\* whether it threw, and whether it needed more dihedrals than MaxDihedrals.
Outcome(st, v, e, f) == [st |-> st, val |-> v, err |-> e, full |-> f]

\* new_dihedral(res, dname) on the manager st with the definitions nmap.
new_dihedral(st, nmap, r, dname) ==
    LET ddef == get_dihedral_def(nmap, ResidueName(r), dname)
        quad == IF ddef = NoDef THEN <<>> ELSE ResolveAtoms(r, ddef)
        free == { d \in DihedralIds : ~st.heap[d].live }
    IN  IF quad = <<>> THEN Outcome(st, Null, TRUE, FALSE)
        ELSE IF free = {} THEN Outcome(st, Null, FALSE, TRUE)
        ELSE LET d   == CHOOSE x \in free : \A e \in free : x <= e
                 obj == Dihedral(quad, r, dname)
             IN  Outcome([heap |-> [st.heap EXCEPT ![d] = obj],
                          list |-> add_dihedral_list(st.list, d),
                          rmap |-> add_dihedral_map(st.rmap, d, obj)],
                         d, FALSE, FALSE)

\* get_dihedral(res, name, create) on the manager st.
get_dihedral_create(st, nmap, r, dname, create) ==
    LET found == get_dihedral(st.rmap, r, dname)
    IN  IF found /= Null \/ ~create THEN Outcome(st, found, FALSE, FALSE)
        ELSE new_dihedral(st, nmap, r, dname)

\* What an entry point that returns an array of dihedrals hands back: the
\* array python_voidp_array made, or 0 after molc_error().
ArrayOf(dvec) == [null |-> FALSE, dihedrals |-> dvec]
NullArray == [null |-> TRUE, dihedrals |-> <<>>]

\* A variant of proper_dihedral_mgr_get_dihedrals that stores every result,
\* null or not, in its output.
RECURSIVE get_dihedrals_keeping_null(_, _, _, _, _, _, _)
get_dihedrals_keeping_null(st, nmap, residues, dname, create, i, dvec) ==
    IF i > Len(residues) THEN Outcome(st, ArrayOf(dvec), FALSE, FALSE)
    ELSE LET got == get_dihedral_create(st, nmap, residues[i], dname, create)
         IN  IF got.err \/ got.full THEN Outcome(got.st, NullArray, got.err, got.full)
             ELSE get_dihedrals_keeping_null(got.st, nmap, residues, dname, create,
                                             i + 1, Append(dvec, got.val))

\* proper_dihedral_mgr_get_dihedrals(mgr, residues, name, n, create): the loop
\* from residue i on, with dvec the results pushed so far; an exception ends
\* the call with molc_error() and a null result.
RECURSIVE proper_dihedral_mgr_get_dihedrals(_, _, _, _, _, _, _)
proper_dihedral_mgr_get_dihedrals(st, nmap, residues, dname, create, i, dvec) ==
    IF i > Len(residues) THEN Outcome(st, ArrayOf(dvec), FALSE, FALSE)
    ELSE LET got == get_dihedral_create(st, nmap, residues[i], dname, create)
         IN  IF got.err \/ got.full THEN Outcome(got.st, NullArray, got.err, got.full)
             ELSE proper_dihedral_mgr_get_dihedrals(
                      got.st, nmap, residues, dname, create, i + 1,
                      IF got.val /= Null THEN Append(dvec, got.val) ELSE dvec)

GetDihedrals(residues, dname, create) ==
    /\ \A i \in 1..Len(residues) : ResidueAlive(residues[i])
    /\ LET done == proper_dihedral_mgr_get_dihedrals(
                       DihedralMgr, _residue_name_map, residues, dname, create, 1, <<>>)
       IN  /\ ~done.full
           /\ dihedral' = done.st.heap
           /\ _dihedrals' = done.st.list
           /\ _residue_map' = done.st.rmap
           /\ ret' = Ret("get_dihedrals",
                         [residues |-> residues, create |-> create,
                          null |-> done.val.null, dihedrals |-> done.val.dihedrals],
                         done.err)
    /\ UNCHANGED _residue_name_map
    /\ UNCHANGED <<hostVars, engineVars, positionVars, distanceVars, tracker>>

\* The entry points that construct a manager.
ManagerEntryPoints ==
    {"proper_dihedral_mgr_new", "rama_mgr_new", "rota_mgr_new",
     "distance_restraint_mgr_new"}

\* Is the new-expression of the entry point inside its try block?
\* proper_dihedral_mgr_new and distance_restraint_mgr_new construct inside
\* try { }; rama_mgr_new and rota_mgr_new construct first and then enter a
\* try block that holds the return statement only.
constructs_in_try(entry) == entry \notin {"rama_mgr_new", "rota_mgr_new"}

\* What the caller of the entry point sees when the constructor throws or
\* does not: whether the call returns at all, whether it returns null, and
\* whether molc_error() has set the error state.
mgr_new(entry, throws) ==
    IF ~throws THEN [returns |-> TRUE, null |-> FALSE, err |-> FALSE]
    ELSE IF constructs_in_try(entry)
         THEN [returns |-> TRUE, null |-> TRUE, err |-> TRUE]
         ELSE [returns |-> FALSE, null |-> FALSE, err |-> FALSE]

\* A call of a constructing entry point; throws says whether the constructor
\* (or the allocation) raises an exception in this call.
ManagerNew(entry, throws) ==
    /\ LET out == mgr_new(entry, throws)
       IN  ret' = Ret(entry, [returns |-> out.returns, null |-> out.null], out.err)
    /\ UNCHANGED <<hostVars, engineVars, dihedralVars, positionVars, distanceVars, tracker>>

\* The elements of the set of identities S in ascending order, as the
\* iteration over a std::set delivers them.
RECURSIVE InOrder(_)
InOrder(S) ==
    IF S = {} THEN <<>>
    ELSE LET least == CHOOSE x \in S : \A y \in S : x <= y
         IN  <<least>> \o InOrder(S \ {least})

\* Distance_Restraint_Mgr::get_restraints(atom): the registered restraints
\* that have the atom as one of their two atoms.
get_restraints(regs, heap, atom) ==
    { dr \in regs : \E i \in 1..2 : heap[dr].atoms[i] = atom }

\* A variant of the entry point without the test that the other atom of the
\* restraint is in the set.
intra_restraints_of_any_atom(regs, heap, atoms) ==
    LET aset == Range(atoms)
        dset == UNION { get_restraints(regs, heap, ta) : ta \in aset }
    IN  [null |-> FALSE, restraints |-> InOrder(dset)]

\* distance_restraint_mgr_intra_restraints(mgr, atoms, n): aset is the set of
\* the atoms given; a restraint of an atom ta of aset joins dset when one of
\* its atoms is not ta and is in aset.
distance_restraint_mgr_intra_restraints(regs, heap, atoms) ==
    LET aset == Range(atoms)
        dset == UNION { { dr \in get_restraints(regs, heap, ta) :
                            \E i \in 1..2 : /\ heap[dr].atoms[i] /= ta
                                            /\ heap[dr].atoms[i] \in aset } :
                        ta \in aset }
    IN  [null |-> FALSE, restraints |-> InOrder(dset)]

IntraRestraints(atoms) ==
    /\ \A i \in 1..Len(atoms) : AtomAlive(atoms[i])
    /\ LET out == distance_restraint_mgr_intra_restraints(_restraints, drestraint, atoms)
       IN  ret' = Ret("intra_restraints",
                      [atoms |-> atoms, null |-> out.null, restraints |-> out.restraints],
                      FALSE)
    /\ UNCHANGED <<hostVars, engineVars, dihedralVars, positionVars, distanceVars, tracker>>

(***************************************************************************)
(* The rotamer validator: Rota_Mgr and rota_mgr_non_favored                *)
(***************************************************************************)
\* Rota_Mgr holds one interpolator per residue name and one pair of cutoffs
\* for all of them; the cutoffs are kept under the single key ROTA_CUTOFFS.
ROTA_CUTOFFS == "rotamer"
NoRotamers == [interpolators |-> EmptyMap, cutoffs |-> EmptyMap]

\* A Rotamer: the residue it views, the residue's name and its chi angles.
Rotamer(res, rname, angles) == [res |-> res, rcase |-> rname, angles |-> angles]

\* Rota_Mgr::validate(rotamers, n, scores): the score of each rotamer is read
\* from the interpolator of its residue name; a name without one is unscored.
rota_validate(mgr, rotamers) ==
    [i \in 1..Len(rotamers) |-> validate(mgr.interpolators, rotamers[i])]

\* Rota_Mgr::bin_score(score)
rota_bin_score(mgr, score) ==
    IF ~scored(score) THEN "NA" ELSE bin_score(mgr.cutoffs, score, ROTA_CUTOFFS)

NoneFound == [bad |-> <<>>, scores |-> <<>>]

\* rota_mgr_non_favored keeping every rotamer that is not binned FAVORED.
RECURSIVE non_favored_keeping_na(_, _, _, _, _)
non_favored_keeping_na(mgr, rotamers, vscores, i, out) ==
    IF i > Len(rotamers)
    THEN [found |-> Len(out.bad), bad |-> out.bad, scores |-> out.scores]
    ELSE IF rota_bin_score(mgr, vscores[i]) /= "FAVORED"
         THEN non_favored_keeping_na(mgr, rotamers, vscores, i + 1,
                  [bad |-> Append(out.bad, rotamers[i]),
                   scores |-> Append(out.scores, vscores[i])])
         ELSE non_favored_keeping_na(mgr, rotamers, vscores, i + 1, out)

\* rota_mgr_non_favored: the loop over the n validated scores, from entry i
\* on; out holds the first `found` entries of bad[] and scores[].
RECURSIVE rota_mgr_non_favored(_, _, _, _, _)
rota_mgr_non_favored(mgr, rotamers, vscores, i, out) ==
    IF i > Len(rotamers)
    THEN [found |-> Len(out.bad), bad |-> out.bad, scores |-> out.scores]
    ELSE IF rota_bin_score(mgr, vscores[i]) \in {"ALLOWED", "OUTLIER"}
         THEN rota_mgr_non_favored(mgr, rotamers, vscores, i + 1,
                  [bad |-> Append(out.bad, rotamers[i]),
                   scores |-> Append(out.scores, vscores[i])])
         ELSE rota_mgr_non_favored(mgr, rotamers, vscores, i + 1, out)

\* rota_mgr_add_interpolator
RotaAddInterpolator(rname, dim, n, min, max, data) ==
    /\ rota_mgr' = [rota_mgr EXCEPT !.interpolators =
                        add_interpolator(@, rname, dim, n, min, max, data)]
    /\ ret' = Ret("rota add_interpolator", Null, FALSE)
    /\ UNCHANGED <<hostVars, validatorVars, force, dihedralVars, positionVars,
                   distanceVars, tracker>>

\* rota_mgr_set_cutoffs
RotaSetCutoffs(allowed, outlier) ==
    /\ rota_mgr' = [rota_mgr EXCEPT !.cutoffs =
                        set_cutoffs(@, ROTA_CUTOFFS, allowed, outlier)]
    /\ ret' = Ret("rota set_cutoffs", Null, FALSE)
    /\ UNCHANGED <<hostVars, validatorVars, force, dihedralVars, positionVars,
                   distanceVars, tracker>>

\* rota_mgr_non_favored(mgr, rotamer, n, bad, scores)
RotaNonFavored(rotamers) ==
    /\ ret' = Ret("non_favored",
                  [rotamers |-> rotamers,
                   out |-> rota_mgr_non_favored(rota_mgr, rotamers,
                               rota_validate(rota_mgr, rotamers), 1, NoneFound)],
                  FALSE)
    /\ UNCHANGED <<hostVars, engineVars, dihedralVars, positionVars, distanceVars, tracker>>

(***************************************************************************)
(* The display radius of a restraint                                       *)
(***************************************************************************)
\* Radii are in thousandths of an Angstrom; a computed radius is the exact
\* fraction [num, den] of that unit.
LINEAR_RESTRAINT_MAX_RADIUS == 300
LINEAR_RESTRAINT_MIN_RADIUS == 25

\* The number of sqrt's digits that are kept: sqrt(num / den) is the fraction
\* [root, SqrtScale] with root the largest integer whose square is at most
\* SqrtScale^2 * num / den.
SqrtScale == 10000

RECURSIVE isqrt_between(_, _, _)
isqrt_between(x, lo, hi) ==
    IF lo = hi THEN lo
    ELSE LET mid == (lo + hi + 1) \div 2
         IN  IF mid * mid <= x THEN isqrt_between(x, mid, hi)
             ELSE isqrt_between(x, lo, mid - 1)

sqrt(num, den) ==
    [num |-> isqrt_between(((SqrtScale * SqrtScale) \div den) * num, 0, 2 * SqrtScale),
     den |-> SqrtScale]

\* Position_Restraint::radius
position_radius(obj) ==
    [num |-> obj.spring_constant
                 * (LINEAR_RESTRAINT_MAX_RADIUS - LINEAR_RESTRAINT_MIN_RADIUS)
             + LINEAR_RESTRAINT_MIN_RADIUS * MAX_LINEAR_SPRING_CONSTANT,
     den |-> MAX_LINEAR_SPRING_CONSTANT]

\* A variant of Distance_Restraint::radius with the scaling of
\* Position_Restraint::radius.
distance_radius_linear(obj) == position_radius(obj)

\* Distance_Restraint::radius
distance_radius(obj) ==
    LET root == sqrt(obj.spring_constant, MAX_LINEAR_SPRING_CONSTANT)
    IN  [num |-> root.num * (LINEAR_RESTRAINT_MAX_RADIUS - LINEAR_RESTRAINT_MIN_RADIUS)
                 + LINEAR_RESTRAINT_MIN_RADIUS * root.den,
         den |-> root.den]

PositionRadius(r) ==
    /\ prestraint[r].live
    /\ ret' = Ret("radius", <<r, position_radius(prestraint[r])>>, FALSE)
    /\ UNCHANGED <<hostVars, engineVars, dihedralVars, positionVars, distanceVars, tracker>>

DistanceRadius(r) ==
    /\ drestraint[r].live
    /\ ret' = Ret("distance radius", <<r, distance_radius(drestraint[r])>>, FALSE)
    /\ UNCHANGED <<hostVars, engineVars, dihedralVars, positionVars, distanceVars, tracker>>

(***************************************************************************)
(* Specifications                                                          *)
(***************************************************************************)
Init ==
    /\ destroyed = {}
    /\ dihedral = [d \in DihedralIds |-> NoDihedral]
    /\ _dihedrals = <<>>
    /\ _residue_map = EmptyMap
    /\ _residue_name_map = EmptyMap
    /\ coord = InitialCoord
    /\ visible = [a \in AllAtomIds |-> TRUE]
    /\ prestraint = [r \in RestraintIds |-> NoRestraint]
    /\ _atom_to_restraint = EmptyMap
    /\ drestraint = [r \in RestraintIds |-> NoRestraint]
    /\ _restraints = {}
    /\ tracker = {}
    /\ interpolator = NoInterpolator
    /\ _interpolators = EmptyMap
    /\ _cutoffs = EmptyMap
    /\ force = NoForce
    /\ rota_mgr = NoRotamers
    /\ ret = Ret("init", Null, FALSE)

\* The registry of dihedral definitions.
NextDefs ==
    \/ \E rname \in ResNames, dname \in DihedralNames,
          anames \in AtomNameLists, externals \in ExternalLists :
            AddDihedralDef(rname, dname, anames, externals)
    \/ \E rname \in ResNames, dname \in DihedralNames : GetDihedralDef(rname, dname)

SpecDefs == Init /\ [][NextDefs]_vars

\* Empty names are allowed for a dihedral, as is having no residue.
NextDihedral ==
    \/ \E in \in DihedralInputs : CreateDihedral(in[1], in[2], in[3])
    \/ \E d \in DihedralIds : AddDihedral(d)
    \/ \E r \in ResidueIds : NewDihedral(r, "phi")
    \/ \E r \in ResidueIds, create \in BOOLEAN : GetDihedral(r, "phi", create)
    \/ \E ds \in SUBSET DihedralIds : DeleteDihedrals(ds)
    \/ AddDihedralDef("ALA", "phi", TableDef("phi")[1], TableDef("phi")[2])
    \/ \E S \in DestroyBatches(AliveAtomPtrs \cup AliveResiduePtrs) : Destroy(S)

SpecDihedral == Init /\ [][NextDihedral]_vars

\* The position restraint manager, its restraints and the host.
KInputs == {-1, 0, 50, MAX_LINEAR_SPRING_CONSTANT, MAX_LINEAR_SPRING_CONSTANT + 1}
TargetInputs == {0, MIN_DISTANCE_RESTRAINT_TARGET, 2}

\* Pairs of atoms: bonded, not bonded (in both orders), the same atom twice,
\* and one with an atom of another structure.
AtomPairs == { <<1, 2>>, <<1, 3>>, <<3, 1>>, <<2, 4>>, <<2, 2>>, <<1, ForeignAtom>> }

NextPosition ==
    \/ \E atom \in AllAtomIds, create \in BOOLEAN : GetRestraint(atom, create)
    \/ \E r \in RestraintIds : PositionSetK(r, 50)
    \/ \E r \in RestraintIds, target \in Coords : PositionSetTarget(r, target)
    \/ \E to_delete \in SUBSET RestraintIds : DeleteRestraints(to_delete)
    \/ \E S \in DestroyBatches(AliveAtomPtrs) : Destroy(S)
    \/ MoveAtoms

SpecPosition == Init /\ [][NextPosition]_vars

\* The distance restraint manager, its restraints and the host.
NextDistance ==
    \/ \E p \in AtomPairs, create \in BOOLEAN : GetDistanceRestraint(p[1], p[2], create)
    \/ \E p \in { <<1, 2>>, <<1, 3>> }, target \in TargetInputs :
            ConstructDistanceRestraint(p[1], p[2], target, 50)
    \/ \E r \in RestraintIds, target \in TargetInputs : DistanceSetTarget(r, target)
    \/ \E r \in RestraintIds : DistanceSetK(r, 50)
    \/ \E S \in DestroyBatches(AliveAtomPtrs) : Destroy(S)

SpecDistance == Init /\ [][NextDistance]_vars

\* Both restraint managers: creation, lookup and the spring constant.
NextRestraints ==
    \/ \E atom \in {1, 2, 3, ForeignAtom}, create \in BOOLEAN : GetRestraint(atom, create)
    \/ \E p \in AtomPairs, create \in BOOLEAN : GetDistanceRestraint(p[1], p[2], create)
    \/ \E r \in RestraintIds, k \in KInputs : PositionSetK(r, k)
    \/ \E r \in RestraintIds, k \in KInputs : DistanceSetK(r, k)
    \/ \E to_delete \in SUBSET RestraintIds : DeleteRestraints(to_delete)

SpecRestraints == Init /\ [][NextRestraints]_vars

\* The operations of dihedral_mgr.cpp alone, on dihedrals the caller constructs.
NextDihedralCore ==
    \/ \E in \in DihedralInputs : CreateDihedral(in[1], in[2], in[3])
    \/ \E d \in DihedralIds : AddDihedral(d)
    \/ \E S \in DestroyBatches(AliveAtomPtrs \cup AliveResiduePtrs) : Destroy(S)

SpecDihedralCore == Init /\ [][NextDihedralCore]_vars

\* The setters of one restraint of each kind, and the Change_Tracker.
NextTracker ==
    \/ GetRestraint(2, TRUE)
    \/ GetDistanceRestraint(1, 3, TRUE)
    \/ \E r \in RestraintIds : PositionSetTarget(r, 1)
    \/ \E r \in RestraintIds, k \in {0, 50} : PositionSetK(r, k)
    \/ \E r \in RestraintIds, flag \in BOOLEAN : PositionSetEnabled(r, flag)
    \/ \E r \in RestraintIds : PositionSetSimIndex(r, 0)
    \/ \E r \in RestraintIds : DistanceSetTarget(r, 2)
    \/ \E r \in RestraintIds : DistanceSetK(r, 50)
    \/ \E r \in RestraintIds, flag \in BOOLEAN : DistanceSetEnabled(r, flag)
    \/ ClearTracker

SpecTracker == Init /\ [][NextTracker]_vars

\* Changes to several restraints of one manager between two drains.
NextAccumulate ==
    \/ \E atom \in {2, 3} : GetRestraint(atom, TRUE)
    \/ \E r \in RestraintIds : PositionSetK(r, 50)
    \/ \E r \in RestraintIds : PositionSetEnabled(r, TRUE)
    \/ ClearTracker

SpecAccumulate == Init /\ [][NextAccumulate]_vars

SimIndexInputs == {0, 1}

\* The simulation index slot under every operation of a restraint.
NextSimIndex ==
    \/ \E create \in BOOLEAN : GetRestraint(2, create)
    \/ \E create \in BOOLEAN : GetDistanceRestraint(1, 3, create)
    \/ \E r \in RestraintIds, i \in SimIndexInputs : PositionSetSimIndex(r, i)
    \/ \E r \in RestraintIds : PositionClearSimIndex(r)
    \/ \E r \in RestraintIds, i \in SimIndexInputs : DistanceSetSimIndex(r, i)
    \/ \E r \in RestraintIds : DistanceClearSimIndex(r)
    \/ \E r \in RestraintIds : PositionSetTarget(r, 1)
    \/ \E r \in RestraintIds : PositionSetK(r, 50)
    \/ \E r \in RestraintIds : PositionSetEnabled(r, TRUE)
    \/ \E r \in RestraintIds : DistanceSetTarget(r, 2)
    \/ \E r \in RestraintIds : DistanceSetK(r, 50)
    \/ \E r \in RestraintIds : DistanceSetEnabled(r, TRUE)
    \/ VisibleRestraints
    \/ DistanceVisibleRestraints

SpecSimIndex == Init /\ [][NextSimIndex]_vars

\* Visibility of atoms and restraints.
NextVisible ==
    \/ \E atom \in {2, 3} : GetRestraint(atom, TRUE)
    \/ GetDistanceRestraint(1, 3, TRUE)
    \/ \E r \in RestraintIds, flag \in BOOLEAN : PositionSetEnabled(r, flag)
    \/ \E r \in RestraintIds, flag \in BOOLEAN : DistanceSetEnabled(r, flag)
    \/ \E a \in {1, 2, 3}, flag \in BOOLEAN : SetVisible(a, flag)
    \/ VisibleRestraints
    \/ DistanceVisibleRestraints

SpecVisible == Init /\ [][NextVisible]_vars

\* Target angles of dihedrals the caller constructs.
AngleInputs == (0 - 3 * M_PI - 1)..(3 * M_PI + 1)

NextTarget ==
    \/ CreateDihedral(ResidueQuad(1), 1, "phi")
    \/ \E d \in DihedralIds, val \in AngleInputs : SetTarget(d, val)

SpecTarget == Init /\ [][NextTarget]_vars

\* One interpolator, constructed by the caller and queried.
NextInterpolator ==
    \/ \E in \in GridInputs : NewInterpolator(in[1], in[2], in[3], in[4], in[5])
    \/ \E q \in QueryInputs(1) \cup QueryInputs(2) : Interpolate(q)

SpecInterpolator == Init /\ [][NextInterpolator]_vars

\* The Ramachandran validator: grids and cutoffs are registered, residues are
\* validated one at a time over every angle pair and in batches of two.
RamaInputs == { Rama(rc, q) : rc \in RamaCases, q \in { <<0 - 5, 1>>, <<2, 0 - 4>> } }
RamaBatches == { <<r1>> : r1 \in RamaInputs } \cup { <<r1, r2>> : r1 \in RamaInputs, r2 \in RamaInputs }
RamaQueries ==
    { <<Rama(rc, <<x, y>>)>> : rc \in RamaCases, x \in RamaAngles, y \in RamaAngles }
ScoreBatches == { <<Score(10), Score(3)>>, <<Score(3), Score(10)>>, <<Score(0), Score(5)>>,
                  <<Score(1), Score(NO_RAMA_SCORE)>> }
CaseBatches == { <<c1, c2>> : c1 \in RamaCases, c2 \in RamaCases }

NextRama ==
    \/ \E rc \in RamaCases, data \in RamaGrids :
          RamaAddInterpolator(rc, 2, RamaCounts, <<0 - M_PI, 0 - M_PI>>, <<M_PI, M_PI>>, data)
    \/ \E rc \in RamaCases : RamaSetCutoffs(rc, 5, 1)
    \/ \E b \in RamaQueries \cup RamaBatches : RamaValidate(b)
    \/ \E b \in RamaBatches : RamaValidateByResidue(b)
    \/ \E sc \in ScoreBatches, cs \in CaseBatches : RamaBinScores(sc, cs)
    \/ \E b \in RamaBatches : RamaValidateAndColor(b)

SpecRama == Init /\ [][NextRama]_vars

\* The cutoff table alone.
NextCutoffs ==
    \/ \E rc \in RamaCases, allowed \in CutoffInputs, outlier \in CutoffInputs :
          RamaSetCutoffs(rc, allowed, outlier)
    \/ \E rc \in RamaCases : RamaGetCutoffs(rc)

SpecCutoffs == Init /\ [][NextCutoffs]_vars

\* Chiral centres constructed on an atom with two and on an atom with three
\* neighbours, over every choice of the substituents.
ExpectedAngles == {0 - 2, 2}

ChiralCenters == {2, 3}

NextChiral ==
    \E center \in ChiralCenters, s1 \in AtomIds, s2 \in AtomIds, s3 \in AtomIds,
       e \in ExpectedAngles : CreateChiralCenter(center, s1, s2, s3, e)

SpecChiral == Init /\ [][NextChiral]_vars

\* One custom force of the simulation: terms are added and updated in bulk.
ForceInputs == { <<"CustomBondForce", 1>>, <<"CustomCompoundBondForce", 2>>,
                 <<"CustomExternalForce", 1>>, <<"CustomTorsionForce", 1>> }

NextForce ==
    \/ \E in \in ForceInputs : NewForce(in[1], in[2])
    \/ \E p \in ParticleArrays(force), params \in ParamArrays(force) :
          AddToForce(BatchSize(params), p, params)
    \/ \E indices \in IndexArrays, params \in ParamArrays(force) :
          UpdateForceParameters(Len(indices), indices, params)

SpecForce == Init /\ [][NextForce]_vars

\* Restraints of both managers, their spring constants and their radii.
RadiusKInputs == KInputs \cup {25000}

NextRadius ==
    \/ \E atom \in {2, 3} : GetRestraint(atom, TRUE)
    \/ \E p \in { <<1, 3>>, <<1, 2>> } : GetDistanceRestraint(p[1], p[2], TRUE)
    \/ \E p \in { <<2, 4>>, <<3, 4>> } : ConstructDistanceRestraint(p[1], p[2], 2, 50)
    \/ \E r \in RestraintIds, k \in RadiusKInputs : PositionSetK(r, k)
    \/ \E r \in RestraintIds, k \in RadiusKInputs : DistanceSetK(r, k)
    \/ \E r \in RestraintIds : PositionRadius(r)
    \/ \E r \in RestraintIds : DistanceRadius(r)

SpecRadius == Init /\ [][NextRadius]_vars

\* The Python interface: the constructing entry points, next to the calls
\* that register definitions and look dihedrals up in bulk.
ResidueBatches ==
    {<<>>} \cup { <<r>> : r \in ResidueIds } \cup { <<r, s>> : r, s \in ResidueIds }

NextInterface ==
    \/ \E entry \in ManagerEntryPoints, throws \in BOOLEAN : ManagerNew(entry, throws)
    \/ \E dname \in DihedralNames :
          AddDihedralDef("ALA", dname, TableDef(dname)[1], TableDef(dname)[2])
    \/ \E residues \in ResidueBatches, create \in BOOLEAN :
          GetDihedrals(residues, "phi", create)

SpecInterface == Init /\ [][NextInterface]_vars

\* The bulk lookup of dihedrals over a manager whose definitions, dihedrals
\* and host change.
NextBulk ==
    \/ \E dname \in DihedralNames :
          AddDihedralDef("ALA", dname, TableDef(dname)[1], TableDef(dname)[2])
    \/ \E residues \in ResidueBatches, dname \in DihedralNames, create \in BOOLEAN :
          GetDihedrals(residues, dname, create)
    \/ \E ds \in SUBSET DihedralIds : DeleteDihedrals(ds)
    \/ \E S \in DestroyBatches({AtomPtr(1), ResiduePtr(2)} \ destroyed) : Destroy(S)

SpecBulk == Init /\ [][NextBulk]_vars

\* Distance restraints between non-bonded atoms and the restraints within a
\* set of atoms.
IntraPairs == { <<1, 3>>, <<1, 4>>, <<4, 1>>, <<2, 4>>, <<2, 5>> }
AtomBatches ==
    LET A == {1, 3, 4}
    IN  {<<>>} \cup { <<a>> : a \in A } \cup { <<a, b>> : a, b \in A }
               \cup { <<a, b, c>> : a, b, c \in A }

NextIntra ==
    \/ \E p \in IntraPairs : GetDistanceRestraint(p[1], p[2], TRUE)
    \/ \E atoms \in AtomBatches : IntraRestraints(atoms)
    \/ \E S \in DestroyBatches({AtomPtr(4)} \ destroyed) : Destroy(S)

SpecIntra == Init /\ [][NextIntra]_vars

\* The rotamer validator: grids and cutoffs are registered, batches of up to
\* three rotamers are filtered. No grid is ever registered for "GLY".
RotaNames == {"LYS", "ARG"}
RotaInputs ==
    { Rotamer(1, "LYS", <<0 - M_PI, 0 - M_PI>>), Rotamer(2, "LYS", <<0, 0 - M_PI>>),
      Rotamer(3, "ARG", <<0 - M_PI, 0>>), Rotamer(4, "GLY", <<0, 0>>) }
RotaBatches ==
    { <<r1>> : r1 \in RotaInputs }
        \cup { <<r1, r2>> : r1 \in RotaInputs, r2 \in RotaInputs }
        \cup { b \in { <<r1, r2, r3>> : r1 \in RotaInputs, r2 \in RotaInputs,
                                         r3 \in RotaInputs } :
                   Cardinality({b[1], b[2], b[3]}) = 3 }
RotaCutoffInputs == { <<5, 1>>, <<3, 2>> }
NextRota ==
    \/ \E rn \in RotaNames, data \in RamaGrids :
          RotaAddInterpolator(rn, 2, RamaCounts, <<0 - M_PI, 0 - M_PI>>, <<M_PI, M_PI>>, data)
    \/ \E c \in RotaCutoffInputs : RotaSetCutoffs(c[1], c[2])
    \/ \E b \in RotaBatches : RotaNonFavored(b)
SpecRota == Init /\ [][NextRota]_vars

(***************************************************************************)
(* Claims about the Dihedral_Mgr                                           *)
(***************************************************************************)
\* The instances the manager holds: the owned list and the index.
HeldDihedrals ==
    Range(_dihedrals) \cup { e[3] : e \in MappedEntries(_residue_map) }

ReferencesAtom(d, a) == dihedral[d].live /\ a \in AtomsOf(dihedral[d].atoms)

\* C1: destructors_done with a destroyed set {A} removes every mapped
\* descriptor that references atom A, leaves the other mapped descriptors
\* mapped, and lowers num_mapped_dihedrals() by the number removed.
C1_DestructionPurge ==
    [][\A a \in AtomIds :
          Destroy({AtomPtr(a)}) =>
            LET refs == { e \in MappedEntries(_residue_map) : ReferencesAtom(e[3], a) }
            IN  /\ MappedEntries(_residue_map') = MappedEntries(_residue_map) \ refs
                /\ num_mapped_dihedrals_of(_residue_map') =
                       num_mapped_dihedrals - Cardinality(refs)
                /\ \A d \in Range(_dihedrals') : ~ReferencesAtom(d, a)]_vars

\* C2: when destructors_done has returned, neither the index nor the owned
\* list holds a descriptor whose residue or one of whose atoms was destroyed.
C2_NoDanglingReference ==
    ret.op = "destructors_done" =>
        /\ \A r \in DOMAIN _residue_map : ResiduePtr(r) \notin destroyed
        /\ \A d \in HeldDihedrals :
              /\ \A a \in AtomsOf(dihedral[d].atoms) : AtomPtr(a) \notin destroyed
              /\ dihedral[d].residue /= Null =>
                     ResiduePtr(dihedral[d].residue) \notin destroyed

\* C3: at most one live descriptor instance owned by the manager exists for
\* each (Residue, name) pair.
C3_OneInstancePerResidueName ==
    \A r \in ResidueIds, n \in DihedralNames :
        Cardinality({ d \in Range(_dihedrals) :
            dihedral[d].live /\ dihedral[d].residue = r /\ dihedral[d].name = n }) <= 1

\* C4: add_dihedral_def fails when a definition for (rname, dname) exists and
\* then changes no stored definition; otherwise it stores the given one, which
\* get_dihedral_def then returns, and changes no other definition.
C4_AddDihedralDef ==
    [][\A rname \in ResNames, dname \in DihedralNames,
          anames \in AtomNameLists, externals \in ExternalLists :
          AddDihedralDef(rname, dname, anames, externals) =>
            /\ ret'.err = has_dihedral_def(_residue_name_map, rname, dname)
            /\ get_dihedral_def(_residue_name_map', rname, dname) =
                   IF has_dihedral_def(_residue_name_map, rname, dname)
                   THEN _residue_name_map[rname][dname]
                   ELSE <<anames, externals>>
            /\ \A rn \in ResNames, dn \in DihedralNames :
                  <<rn, dn>> /= <<rname, dname>> =>
                      get_dihedral_def(_residue_name_map', rn, dn) =
                      get_dihedral_def(_residue_name_map, rn, dn)]_vars

\* A duplicate add_dihedral_def was refused while another definition is stored.
C4_Witness ==
    /\ ret.op = "add_dihedral_def" /\ ret.err
    /\ \E rn \in DOMAIN _residue_name_map : Cardinality(DOMAIN _residue_name_map[rn]) = 2

\* C5: get_dihedral(residue, name, create=false) returns the instance mapped
\* for (residue, name), or null without raising when none is mapped, and
\* leaves the manager's indices and instances unchanged.
C5_GetDihedralNoCreate ==
    [][\A r \in ResidueIds :
          GetDihedral(r, "phi", FALSE) =>
            LET hits == { e \in MappedEntries(_residue_map) : e[1] = r /\ e[2] = "phi" }
            IN  /\ ~ret'.err
                /\ ret'.val = IF hits = {} THEN Null ELSE (CHOOSE e \in hits : TRUE)[3]
                /\ UNCHANGED <<dihedral, _dihedrals, _residue_map, _residue_name_map>>]_vars

\* get_dihedral has returned a cached instance while a second one is mapped.
C5_Witness ==
    /\ ret.op = "get_dihedral" /\ ret.val /= Null /\ ~ret.err
    /\ num_mapped_dihedrals = 2

(***************************************************************************)
(* Claims about the restraint managers                                     *)
(***************************************************************************)
LivePositionIds == { r \in RestraintIds : prestraint[r].live }
LiveDistanceIds == { r \in RestraintIds : drestraint[r].live }

\* The restraints of the position manager that restrain atom a.
RestraintsOn(heap, a) == { r \in RestraintIds : heap[r].live /\ heap[r].atom = a }

OneRestraintPerAtom(heap) ==
    \A a \in AllAtomIds : Cardinality(RestraintsOn(heap, a)) <= 1

\* What get_restraint(atom, create) does when a restraint exists for the atom:
\* it is returned, and nothing changes.
ReturnsExisting(atom) ==
    /\ ~ret'.err /\ ret'.val = _atom_to_restraint[atom]
    /\ UNCHANGED <<prestraint, _atom_to_restraint>>

\* What a successful creation does: exactly one more restraint, for this atom,
\* at the atom's current coordinate, with spring constant 0, disabled.
RegistersDefault(atom) ==
    /\ ~ret'.err
    /\ DOMAIN _atom_to_restraint' = (DOMAIN _atom_to_restraint) \cup {atom}
    /\ Cardinality(DOMAIN _atom_to_restraint') = num_restraints + 1
    /\ RestraintsOn(prestraint', atom) = { ret'.val }
    /\ _atom_to_restraint'[atom] = ret'.val
    /\ prestraint'[ret'.val].target = coord[atom]
    /\ prestraint'[ret'.val].spring_constant = 0
    /\ prestraint'[ret'.val].enabled = FALSE
    /\ \A a \in DOMAIN _atom_to_restraint :
          /\ _atom_to_restraint'[a] = _atom_to_restraint[a]
          /\ prestraint'[_atom_to_restraint[a]] = prestraint[_atom_to_restraint[a]]

Restrainable(atom) == structure(atom) = ModelStructure /\ element_number(atom) /= HYDROGEN

\* C6 as stated: get_restraint(atom, create) returns an existing restraint
\* whatever create is, leaving num_restraints() unchanged, so that at most one
\* restraint exists per atom; when none exists and create is true, exactly one
\* restraint is registered, at the atom's coordinate, with k = 0, disabled.
C6_GetRestraint_AsStated ==
    [][/\ OneRestraintPerAtom(prestraint')
       /\ \A atom \in AllAtomIds, create \in BOOLEAN :
            GetRestraint(atom, create) =>
              IF atom \in DOMAIN _atom_to_restraint THEN ReturnsExisting(atom)
              ELSE create => RegistersDefault(atom)]_vars

\* C6 as amended: the creation case holds for an atom that is no hydrogen and
\* belongs to the manager's structure; for any other atom the call fails and
\* registers nothing.
C6_GetRestraint ==
    [][/\ OneRestraintPerAtom(prestraint')
       /\ \A atom \in AllAtomIds, create \in BOOLEAN :
            GetRestraint(atom, create) =>
              IF atom \in DOMAIN _atom_to_restraint THEN ReturnsExisting(atom)
              ELSE IF create /\ Restrainable(atom) THEN RegistersDefault(atom)
              ELSE create => (ret'.err /\ UNCHANGED <<prestraint, _atom_to_restraint>>)]_vars

\* A restraint has just been created in its default state, at a coordinate of
\* 1, next to a restraint whose spring constant was set.
C6_Witness ==
    /\ ret.op = "get_restraint" /\ ~ret.err /\ ret.val /= Null
    /\ num_restraints = 2
    /\ prestraint[ret.val].spring_constant = 0
    /\ prestraint[ret.val].target = 1
    /\ coord[prestraint[ret.val].atom] = 1
    /\ \E r \in LivePositionIds : prestraint[r].spring_constant = 50

PairRegistered(a1, a2) ==
    \E r \in _restraints : { drestraint[r].atoms[1], drestraint[r].atoms[2] } = {a1, a2}

\* C7: creating a restraint fails for an atom of another structure, for a
\* hydrogen (position case) and for two bonded atoms (distance case); after
\* the failure nothing is registered for the atom(s) and num_restraints() is
\* unchanged, so a later lookup without creation returns null.
C7_CreationFails ==
    [][/\ \A atom \in AllAtomIds :
            (GetRestraint(atom, TRUE) /\ atom \notin DOMAIN _atom_to_restraint
                /\ ~Restrainable(atom)) =>
              /\ ret'.err /\ ret'.val = Null
              /\ atom \notin DOMAIN _atom_to_restraint'
              /\ RestraintsOn(prestraint', atom) = {}
              /\ Cardinality(DOMAIN _atom_to_restraint') = num_restraints
       /\ \A p \in AtomPairs :
            (GetDistanceRestraint(p[1], p[2], TRUE) /\ ~PairRegistered(p[1], p[2])
                /\ (Bonded(p[1], p[2]) \/ structure(p[1]) /= ModelStructure
                                       \/ structure(p[2]) /= ModelStructure)) =>
              /\ ret'.err /\ ret'.val = Null
              /\ _restraints' = _restraints
              /\ drestraint' = drestraint]_vars

\* A creation has just failed while both managers hold restraints.
C7_Witness ==
    /\ ret.op = "get_restraint" /\ ret.err
    /\ num_restraints >= 1 /\ num_distance_restraints >= 1

\* C8: get_restraint(atom, create=false) for an atom without a restraint
\* returns null without raising, registers nothing, leaves num_restraints()
\* unchanged and records no change-tracker event.
C8_LookupWithoutCreate ==
    [][/\ \A atom \in AllAtomIds :
            (GetRestraint(atom, FALSE) /\ atom \notin DOMAIN _atom_to_restraint) =>
              /\ ~ret'.err /\ ret'.val = Null
              /\ UNCHANGED <<prestraint, _atom_to_restraint, tracker>>
       /\ \A p \in AtomPairs :
            (GetDistanceRestraint(p[1], p[2], FALSE) /\ ~PairRegistered(p[1], p[2])) =>
              /\ ~ret'.err /\ ret'.val = Null
              /\ UNCHANGED <<drestraint, _restraints, tracker>>]_vars

\* A lookup has just returned null while another atom holds a restraint and
\* the tracker holds records.
C8_Witness ==
    /\ ret.op = "get_restraint" /\ ~ret.err /\ ret.val = Null
    /\ num_restraints >= 1 /\ tracker /= {}

Clamped(v) ==
    IF v < 0 THEN 0
    ELSE IF v > MAX_LINEAR_SPRING_CONSTANT THEN MAX_LINEAR_SPRING_CONSTANT ELSE v

\* C9: set_k(v) stores 0 for v < 0, MAX_LINEAR_SPRING_CONSTANT for v above it
\* and v otherwise, so every stored spring constant lies in
\* [0, MAX_LINEAR_SPRING_CONSTANT].
C9_SetKClamps ==
    [][/\ \A r \in RestraintIds, k \in KInputs :
            /\ PositionSetK(r, k) => prestraint'[r].spring_constant = Clamped(k)
            /\ DistanceSetK(r, k) => drestraint'[r].spring_constant = Clamped(k)
       /\ \A r \in RestraintIds :
            /\ prestraint'[r].live =>
                 /\ prestraint'[r].spring_constant >= 0
                 /\ prestraint'[r].spring_constant <= MAX_LINEAR_SPRING_CONSTANT
            /\ drestraint'[r].live =>
                 /\ drestraint'[r].spring_constant >= 0
                 /\ drestraint'[r].spring_constant <= MAX_LINEAR_SPRING_CONSTANT]_vars

\* set_k was called with a value above the maximum on a position restraint,
\* which now holds the maximum, while a distance restraint holds 50.
C9_Witness ==
    /\ ret.op = "set_k" /\ ret.val[2] > MAX_LINEAR_SPRING_CONSTANT
    /\ prestraint[ret.val[1]].spring_constant = MAX_LINEAR_SPRING_CONSTANT
    /\ \E r \in LiveDistanceIds : drestraint[r].spring_constant = 50

PositionRecord(r, reason) == <<POSITION_MGR, r, reason>>
DistanceRecord(r, reason) == <<DISTANCE_MGR, r, reason>>

\* A step that is a setter call of a position (distance) restraint r.
PositionSetterStep(r) ==
    \/ PositionSetTarget(r, 1)
    \/ \E k \in {0, 50} : PositionSetK(r, k)
    \/ \E flag \in BOOLEAN : PositionSetEnabled(r, flag)
DistanceSetterStep(r) ==
    \/ DistanceSetTarget(r, 2)
    \/ DistanceSetK(r, 50)
    \/ \E flag \in BOOLEAN : DistanceSetEnabled(r, flag)

\* C11: set_target, set_k and set_enabled record a change event only if the
\* value stored after the call differs from the value stored before it; a
\* call that writes the value already stored records none.
C11_RecordOnlyOnChange ==
    [][\A r \in RestraintIds :
          /\ PositionSetterStep(r) =>
                ((ret'.val[3] \/ tracker' /= tracker) => prestraint'[r] /= prestraint[r])
          /\ DistanceSetterStep(r) =>
                ((ret'.val[3] \/ tracker' /= tracker) => drestraint'[r] /= drestraint[r])]_vars

\* C12: set_enabled(flag) records ENABLED_CHANGED exactly when it changes the
\* flag, and a second call in a row with the same flag records nothing.
C12_SetEnabledOnce ==
    [][\A r \in RestraintIds, flag \in BOOLEAN :
          /\ PositionSetEnabled(r, flag) =>
                /\ ret'.val[3] = (prestraint[r].enabled /= flag)
                /\ tracker' = IF prestraint[r].enabled /= flag
                              THEN tracker \cup { PositionRecord(r, REASON_ENABLED_CHANGED) }
                              ELSE tracker
                /\ (ret.op = "set_enabled" /\ ret.val[1] = r /\ ret.val[2] = flag) =>
                       (~ret'.val[3] /\ tracker' = tracker)
          /\ DistanceSetEnabled(r, flag) =>
                /\ ret'.val[3] = (drestraint[r].enabled /= flag)
                /\ tracker' = IF drestraint[r].enabled /= flag
                              THEN tracker \cup { DistanceRecord(r, REASON_ENABLED_CHANGED) }
                              ELSE tracker
                /\ (ret.op = "distance set_enabled" /\ ret.val[1] = r /\ ret.val[2] = flag) =>
                       (~ret'.val[3] /\ tracker' = tracker)]_vars

\* set_enabled(TRUE) has returned without recording, on an enabled position
\* restraint whose one ENABLED_CHANGED record is held by the tracker.
C12_Witness ==
    /\ ret.op = "set_enabled" /\ ret.val[2] /\ ~ret.val[3]
    /\ prestraint[ret.val[1]].enabled
    /\ PositionRecord(ret.val[1], REASON_ENABLED_CHANGED) \in tracker

\* C13: every set_target, set_k or set_enabled that changes the stored value
\* is recorded with the matching reason for that restraint, and the record
\* stays until the next clear(), whatever the simulation index is.
C13_EveryChangeRecorded ==
    [][/\ \A r \in RestraintIds :
            /\ (PositionSetTarget(r, 1) /\ prestraint'[r].target /= prestraint[r].target)
                  => PositionRecord(r, REASON_TARGET_CHANGED) \in tracker'
            /\ \A k \in {0, 50} :
                  (PositionSetK(r, k)
                     /\ prestraint'[r].spring_constant /= prestraint[r].spring_constant)
                  => PositionRecord(r, REASON_SPRING_CONSTANT_CHANGED) \in tracker'
            /\ \A flag \in BOOLEAN :
                  (PositionSetEnabled(r, flag) /\ prestraint'[r].enabled /= prestraint[r].enabled)
                  => PositionRecord(r, REASON_ENABLED_CHANGED) \in tracker'
            /\ (DistanceSetTarget(r, 2) /\ drestraint'[r].target /= drestraint[r].target)
                  => DistanceRecord(r, REASON_TARGET_CHANGED) \in tracker'
            /\ (DistanceSetK(r, 50)
                     /\ drestraint'[r].spring_constant /= drestraint[r].spring_constant)
                  => DistanceRecord(r, REASON_SPRING_CONSTANT_CHANGED) \in tracker'
            /\ \A flag \in BOOLEAN :
                  (DistanceSetEnabled(r, flag) /\ drestraint'[r].enabled /= drestraint[r].enabled)
                  => DistanceRecord(r, REASON_ENABLED_CHANGED) \in tracker'
       /\ ret'.op /= "clear" => tracker \subseteq tracker']_vars

\* set_k has changed the spring constant of a position restraint that holds
\* no simulation index, after a clear(); the tracker holds the record, next
\* to an older record of the distance restraint.
C13_Witness ==
    /\ ret.op = "set_k" /\ ret.val[2] = 50
    /\ prestraint[ret.val[1]].sim_index = NO_SIM_INDEX
    /\ PositionRecord(ret.val[1], REASON_SPRING_CONSTANT_CHANGED) \in tracker
    /\ PositionRecord(ret.val[1], REASON_CREATED) \notin tracker
    /\ \E r \in RestraintIds : DistanceRecord(r, REASON_TARGET_CHANGED) \in tracker

(***************************************************************************)
(* Claims about the simulation index                                       *)
(***************************************************************************)
SimIndexOps ==
    { "set_sim_index", "clear_sim_index",
      "distance set_sim_index", "distance clear_sim_index" }

\* Every restraint that exists before the step exists after it with the same
\* simulation index.
SlotsKept ==
    \A q \in RestraintIds :
        /\ prestraint[q].live =>
              (prestraint'[q].live /\ prestraint'[q].sim_index = prestraint[q].sim_index)
        /\ drestraint[q].live =>
              (drestraint'[q].live /\ drestraint'[q].sim_index = drestraint[q].sim_index)

\* C14: the slot is -1 from construction until the first set_sim_index, holds
\* the value of the most recent set_sim_index after that, and is -1 again
\* after every clear_sim_index.
C14_SimIndexSlot ==
    [][/\ \A r \in RestraintIds :
            /\ (~prestraint[r].live /\ prestraint'[r].live) =>
                    prestraint'[r].sim_index = -1
            /\ (~drestraint[r].live /\ drestraint'[r].live) =>
                    drestraint'[r].sim_index = -1
            /\ \A i \in SimIndexInputs :
                  /\ PositionSetSimIndex(r, i) => prestraint'[r].sim_index = i
                  /\ DistanceSetSimIndex(r, i) => drestraint'[r].sim_index = i
            /\ PositionClearSimIndex(r) => prestraint'[r].sim_index = -1
            /\ DistanceClearSimIndex(r) => drestraint'[r].sim_index = -1
       /\ ret'.op \notin SimIndexOps => SlotsKept]_vars

\* clear_sim_index has reset the slot of a position restraint, while a
\* distance restraint still holds index 1.
C14_Witness ==
    /\ ret.op = "clear_sim_index"
    /\ prestraint[ret.val].sim_index = -1
    /\ \E q \in LiveDistanceIds : drestraint[q].sim_index = 1

\* C15: set_target, set_k, set_enabled, get_restraint and visible_restraints
\* leave the simulation index of every restraint as it is.
C15_OnlyDriverWritesSlot ==
    [][/\ \A r \in RestraintIds :
            /\ PositionSetTarget(r, 1) => SlotsKept
            /\ PositionSetK(r, 50) => SlotsKept
            /\ PositionSetEnabled(r, TRUE) => SlotsKept
            /\ DistanceSetTarget(r, 2) => SlotsKept
            /\ DistanceSetK(r, 50) => SlotsKept
            /\ DistanceSetEnabled(r, TRUE) => SlotsKept
       /\ \A create \in BOOLEAN : GetRestraint(2, create) => SlotsKept
       /\ \A create \in BOOLEAN : GetDistanceRestraint(1, 3, create) => SlotsKept
       /\ VisibleRestraints => SlotsKept
       /\ DistanceVisibleRestraints => SlotsKept]_vars

\* set_k has changed the spring constant of a restraint that holds index 1.
C15_Witness ==
    /\ ret.op = "set_k"
    /\ prestraint[ret.val[1]].spring_constant = 50
    /\ prestraint[ret.val[1]].sim_index = 1

(***************************************************************************)
(* Claims about visible_restraints, delete_restraints and destruction      *)
(***************************************************************************)
RegisteredPositionIds == { _atom_to_restraint[a] : a \in DOMAIN _atom_to_restraint }

\* C16: visible_restraints() returns exactly the registered restraints whose
\* atom (position) or both atoms (distance) are visible and whose enabled
\* flag is set, and changes no manager or restraint state.
C16_VisibleRestraints ==
    [][/\ VisibleRestraints =>
            /\ ret'.val = { r \in RegisteredPositionIds :
                               visible[prestraint[r].atom] /\ prestraint[r].enabled }
            /\ UNCHANGED <<prestraint, _atom_to_restraint, drestraint, _restraints,
                           tracker, visible>>
       /\ DistanceVisibleRestraints =>
            /\ ret'.val = { r \in _restraints :
                               /\ visible[drestraint[r].atoms[1]]
                               /\ visible[drestraint[r].atoms[2]]
                               /\ drestraint[r].enabled }
            /\ UNCHANGED <<prestraint, _atom_to_restraint, drestraint, _restraints,
                           tracker, visible>>]_vars

\* visible_restraints() has returned one restraint and left out two: an
\* enabled one on a hidden atom is registered, and the distance restraint is
\* enabled with a hidden atom.
C16_Witness ==
    /\ ret.op = "visible_restraints" /\ Cardinality(ret.val) = 1
    /\ \E r \in RegisteredPositionIds :
          prestraint[r].enabled /\ ~visible[prestraint[r].atom]
    /\ \E r \in _restraints : drestraint[r].enabled /\ ~visible[drestraint[r].atoms[1]]

\* C17: delete_restraints(S) removes every restraint of S and no other: a
\* lookup without creation returns null for the atom of each restraint of S,
\* every other restraint is still returned unchanged for its atom, and
\* num_restraints() has decreased by |S|.
C17_DeleteRestraints ==
    [][\A S \in SUBSET RestraintIds :
          DeleteRestraints(S) =>
            /\ \A r \in S : find_restraint(_atom_to_restraint', prestraint[r].atom) = Null
            /\ \A r \in RegisteredPositionIds \ S :
                  /\ find_restraint(_atom_to_restraint', prestraint[r].atom) = r
                  /\ prestraint'[r] = prestraint[r]
            /\ Cardinality(DOMAIN _atom_to_restraint') = num_restraints - Cardinality(S)]_vars

\* delete_restraints has removed one restraint of two; the one that is left
\* has a spring constant of 50.
C17_Witness ==
    /\ ret.op = "delete_restraints" /\ ret.val = 1
    /\ num_restraints = 1
    /\ \E r \in RegisteredPositionIds : prestraint[r].spring_constant = 50

\* C18: destructors_done(destroyed) removes every position restraint whose
\* atom is in the destroyed set and keeps every other one registered and
\* unchanged; afterwards no registered restraint references a destroyed atom.
C18_PositionPurge ==
    [][\A S \in DestroyBatches(AliveAtomPtrs) :
          Destroy(S) =>
            /\ \A r \in RegisteredPositionIds :
                  IF AtomPtr(prestraint[r].atom) \in S
                  THEN /\ prestraint[r].atom \notin DOMAIN _atom_to_restraint'
                       /\ ~prestraint'[r].live
                  ELSE /\ find_restraint(_atom_to_restraint', prestraint[r].atom) = r
                       /\ prestraint'[r] = prestraint[r]
            /\ DOMAIN _atom_to_restraint' \subseteq DOMAIN _atom_to_restraint
            /\ \A a \in DOMAIN _atom_to_restraint' :
                  /\ AtomPtr(a) \notin destroyed'
                  /\ prestraint'[_atom_to_restraint'[a]].atom = a]_vars

\* destructors_done has returned with atom 2 destroyed; the restraint with id
\* 2 is the only one registered and keeps its spring constant of 50.
C18_Witness ==
    /\ ret.op = "destructors_done" /\ AtomPtr(2) \in destroyed
    /\ RegisteredPositionIds = {2}
    /\ prestraint[2].spring_constant = 50

(***************************************************************************)
(* Claims about the Change_Tracker                                         *)
(***************************************************************************)
RecordsOfOthers(t, r) == { x \in t : x[2] /= r }

\* C19: accumulation is idempotent: tracking a reason for an object once or
\* several times between two drains leaves the same accumulated state, and a
\* reason tracked for one object never appears under another object.
C19_IdempotentAccumulation ==
    [][\A r \in RestraintIds :
          /\ PositionSetK(r, 50) =>
                /\ tracker' = tracker \cup { PositionRecord(r, REASON_SPRING_CONSTANT_CHANGED) }
                /\ (ret.op = "set_k" /\ ret.val[1] = r) => tracker' = tracker
                /\ RecordsOfOthers(tracker', r) = RecordsOfOthers(tracker, r)
          /\ PositionSetEnabled(r, TRUE) =>
                /\ tracker' \subseteq tracker \cup { PositionRecord(r, REASON_ENABLED_CHANGED) }
                /\ tracker \subseteq tracker'
                /\ RecordsOfOthers(tracker', r) = RecordsOfOthers(tracker, r)]_vars

\* set_k has recorded a spring constant change for one restraint; a second
\* restraint has records, none of them a spring constant change.
C19_Witness ==
    /\ ret.op = "set_k"
    /\ PositionRecord(ret.val[1], REASON_SPRING_CONSTANT_CHANGED) \in tracker
    /\ \E q \in RestraintIds :
          /\ q /= ret.val[1]
          /\ PositionRecord(q, REASON_CREATED) \in tracker
          /\ PositionRecord(q, REASON_SPRING_CONSTANT_CHANGED) \notin tracker

\* C20: clear() empties all accumulated state, and the records held at any
\* later time are only those of changes tracked since the last clear(): a
\* step adds records only for the object of the call it makes.
C20_ClearDrains ==
    [][/\ ClearTracker => tracker' = {}
       /\ ret'.op = "clear" => tracker' = {}
       /\ ret'.op \in {"set_k", "set_enabled"} =>
              tracker' \ tracker \subseteq
                  { x \in tracker' : x[1] = POSITION_MGR /\ x[2] = ret'.val[1] }
       /\ ret'.op = "get_restraint" =>
              tracker' \ tracker \subseteq
                  { x \in tracker' : x[1] = POSITION_MGR /\ x[2] = ret'.val }]_vars

\* After a clear() that followed the creation of two restraints, the tracker
\* holds only the spring constant change made since.
C20_Witness ==
    /\ ret.op = "set_k" /\ num_restraints = 2
    /\ tracker = { PositionRecord(ret.val[1], REASON_SPRING_CONSTANT_CHANGED) }

(***************************************************************************)
(* C21: after set_target(x) on a dihedral, target() returns t with         *)
(* -pi < t <= pi and t - x a whole multiple of 2*pi; an odd multiple of pi *)
(* is stored as +pi, never as -pi.                                         *)
(***************************************************************************)
C21_TargetWrapped ==
    ret.op = "set_target" =>
        LET t == target_angle(ret.val[1])
            x == ret.val[2]
        IN  /\ 0 - M_PI < t
            /\ t <= M_PI
            /\ (t - x) % TWO_PI = 0


(***************************************************************************)
(* C22: interpolating at a point that is exactly a grid vertex, a vertex   *)
(* on the max boundary included, returns the value stored for that vertex. *)
(***************************************************************************)
IsVertex(g, q) ==
    \A a \in 1..g.dim :
        /\ g.min[a] <= q[a] /\ q[a] <= g.max[a]
        /\ (q[a] - g.min[a]) % g.step[a] = 0

VertexOf(g, q) == [a \in 1..g.dim |-> (q[a] - g.min[a]) \div g.step[a]]

C22_VertexExact ==
    ret.op = "interpolate" =>
        LET q == ret.val[1]
            v == ret.val[2]
        IN  IsVertex(interpolator, q) =>
                v.num = data_at(interpolator, VertexOf(interpolator, q)) * v.den

\* A 2-D grid queried at its max corner, whose stored value differs from the
\* value of the neighbouring vertex along either axis.
C22_Witness ==
    /\ ret.op = "interpolate"
    /\ interpolator.dim = 2
    /\ ret.val[1] = interpolator.max
    /\ ret.val[2].num /= 0
    /\ LET top == VertexOf(interpolator, interpolator.max)
       IN  \A a \in 1..2 :
             data_at(interpolator, [top EXCEPT ![a] = top[a] - 1])
                /= data_at(interpolator, top)

(***************************************************************************)
(* C23: a query outside [min, max] on some axis returns the value of the   *)
(* query clamped onto the boundary on that axis: no extrapolation.         *)
(***************************************************************************)
ClampedQuery(g, q) == [a \in 1..g.dim |-> Clamp(q[a], g.min[a], g.max[a])]

C23_NoExtrapolation ==
    ret.op = "interpolate" =>
        ret.val[2] = interpolate(interpolator, ClampedQuery(interpolator, ret.val[1]))

\* A query beyond max on one axis and below min on the other, on a grid whose
\* boundary values differ from their inner neighbours.
C23_Witness ==
    /\ ret.op = "interpolate"
    /\ interpolator.dim = 2
    /\ ret.val[1][1] > interpolator.max[1]
    /\ ret.val[1][2] < interpolator.min[2]
    /\ ret.val[2].num /= 0
    /\ data_at(interpolator, <<interpolator.n[1] - 1, 0>>)
          /= data_at(interpolator, <<interpolator.n[1] - 2, 0>>)


(***************************************************************************)
(* C24: with a 2-D Ramachandran grid over (-pi, -pi)..(pi, pi) that holds  *)
(* 1.0 everywhere, validate returns the score 1.0 for every angle pair,    *)
(* and with the cutoffs allowed 0.5 and outlier 0.1 a score of 1.0 is      *)
(* binned FAVORED.                                                         *)
(***************************************************************************)
HasUniformGrid(rc) ==
    rc \in DOMAIN _interpolators /\ _interpolators[rc].data = UniformData

HasCutoffs(rc, allowed, outlier) ==
    rc \in DOMAIN _cutoffs /\ rama_mgr_get_cutoffs(_cutoffs, rc) = <<allowed, outlier>>

C24_UniformGridFavored ==
    /\ ret.op \in {"validate", "validate_by_residue"} =>
          /\ Len(ret.val[2]) = Len(ret.val[1])
          /\ \A i \in 1..Len(ret.val[1]) :
                HasUniformGrid(rama_case(ret.val[1][i])) =>
                    ret.val[2][i].score.num = 10 * ret.val[2][i].score.den
    /\ ret.op = "bin_scores" =>
          \A i \in 1..Len(ret.val[1]) :
             (ret.val[1][i].num = 10 * ret.val[1][i].den /\ HasCutoffs(ret.val[2][i], 5, 1)) =>
                 ret.val[3][i] = "FAVORED"

\* One residue validated at an angle pair outside the grid, its case holding
\* the uniform grid and the cutoffs (0.5, 0.1): the score is 1.0, binned FAVORED.
C24_Witness ==
    /\ ret.op = "validate"
    /\ Len(ret.val[1]) = 1
    /\ ret.val[1][1].angles = <<0 - M_PI - 1, M_PI + 1>>
    /\ HasUniformGrid(rama_case(ret.val[1][1]))
    /\ HasCutoffs(rama_case(ret.val[1][1]), 5, 1)
    /\ ret.val[2][1].score.num = 10 * ret.val[2][1].score.den
    /\ rama_mgr_bin_scores(_cutoffs, <<ret.val[2][1].score>>, <<rama_case(ret.val[1][1])>>)
          = <<"FAVORED">>

(***************************************************************************)
(* C25 as stated: validate over a batch leaves the residues whose case has *)
(* no registered Interpolator out of the result set: there is a (score,    *)
(* case) result for exactly the residues whose case has an Interpolator.   *)
(***************************************************************************)
WithInterpolator(ramas) ==
    { i \in 1..Len(ramas) : rama_case(ramas[i]) \in DOMAIN _interpolators }

Unrepresented(rc) == rc \notin DOMAIN _cutoffs /\ rc \notin DOMAIN _interpolators
Represented(rc) == rc \in DOMAIN _cutoffs /\ rc \in DOMAIN _interpolators
Bins == {"FAVORED", "ALLOWED", "OUTLIER"}

C26_UnrepresentedCaseIsNA ==
    /\ ret.op = "bin_scores" =>
          /\ ~ret.err
          /\ \A i \in 1..Len(ret.val[1]) :
                /\ Unrepresented(ret.val[2][i]) => ret.val[3][i] = "NA"
                /\ Represented(ret.val[2][i]) => ret.val[3][i] \in Bins
    /\ ret.op = "validate_and_color" =>
          /\ ~ret.err
          /\ \A i \in 1..Len(ret.val[1]) :
                LET rc == rama_case(ret.val[1][i])
                IN  /\ Unrepresented(rc) => ret.val[2][i] = NA_COLOR
                    /\ Represented(rc) =>
                          ret.val[2][i] =
                              <<"ramp", bin_score(_cutoffs,
                                            validate(_interpolators, ret.val[1][i]), rc)>>

\* A batch of two coloured: the case of the first is in neither table, the
\* second is scored 1.0 and coloured on the favoured end of the ramp.
C26_Witness ==
    /\ ret.op = "validate_and_color"
    /\ Len(ret.val[1]) = 2
    /\ Unrepresented(rama_case(ret.val[1][1]))
    /\ ret.val[2] = <<NA_COLOR, <<"ramp", "FAVORED">> >>

(***************************************************************************)
(* C27: set_cutoffs(case, allowed, outlier) accepts any pair, allowed <=   *)
(* outlier included; get_cutoffs(case) then returns exactly that pair, and *)
(* the cutoffs of every other case are as they were.                       *)
(***************************************************************************)
C27_SetCutoffs ==
    [][ \A rc \in RamaCases, allowed \in CutoffInputs, outlier \in CutoffInputs :
          RamaSetCutoffs(rc, allowed, outlier) =>
              /\ ~ret'.err
              /\ DOMAIN _cutoffs' = (DOMAIN _cutoffs) \cup {rc}
              /\ rama_mgr_get_cutoffs(_cutoffs', rc) = <<allowed, outlier>>
              /\ \A other \in (DOMAIN _cutoffs) \ {rc} :
                    rama_mgr_get_cutoffs(_cutoffs', other)
                        = rama_mgr_get_cutoffs(_cutoffs, other) ]_vars

\* get_cutoffs answers a pair with allowed < outlier while the other case holds
\* the opposite pair.
C27_Witness ==
    /\ ret.op = "get_cutoffs"
    /\ ret.val[2] = <<1, 5>>
    /\ \E other \in RamaCases \ {ret.val[1]} : HasCutoffs(other, 5, 1)


(***************************************************************************)
(* C28: constructing ChiralCenter(center, s1, s2, s3) fails unless each of *)
(* s1, s2 and s3 is bonded to the center; when it succeeds the descriptor  *)
(* is named "chiral" and its residue is the residue of the center.         *)
(***************************************************************************)
C28_ChiralCenter ==
    [][ \A center \in ChiralCenters, s1 \in AtomIds, s2 \in AtomIds, s3 \in AtomIds,
           e \in ExpectedAngles :
          CreateChiralCenter(center, s1, s2, s3, e) =>
              /\ ~(Bonded(s1, center) /\ Bonded(s2, center) /\ Bonded(s3, center)) =>
                    (ret'.err /\ dihedral' = dihedral)
              /\ ~ret'.err =>
                    /\ ~dihedral[ret'.val].live
                    /\ dihedral'[ret'.val].live
                    /\ dihedral'[ret'.val].atoms = <<center, s1, s2, s3>>
                    /\ dihedral'[ret'.val].name = "chiral"
                    /\ dihedral'[ret'.val].residue = atom_residue(center) ]_vars

\* A chiral centre was constructed whose first substituent belongs to another
\* residue than its center.
C28_Witness ==
    /\ ret.op = "ChiralCenter" /\ ~ret.err
    /\ dihedral[ret.val].name = "chiral"
    /\ dihedral[ret.val].residue = atom_residue(dihedral[ret.val].atoms[1])
    /\ dihedral[ret.val].residue /= atom_residue(dihedral[ret.val].atoms[2])


(***************************************************************************)
(* C29 as stated: a bulk update with n indices and n parameter tuples      *)
(* replaces the parameters of the term at indices[i] with the i-th tuple,  *)
(* and leaves that term's particles and every term whose index is not in   *)
(* the array unchanged.                                                    *)
(***************************************************************************)
AllValid(indices) == \A i \in 1..Len(indices) : valid_index(force.terms, indices[i])
Occurs(indices, index) == \E i \in 1..Len(indices) : indices[i] = index
Tuple(params, i) == [j \in 1..force.n_params |-> params[(i - 1) * force.n_params + j]]

FrameOfUpdate(indices) ==
    /\ Len(force'.terms) = Len(force.terms)
    /\ \A t \in 1..Len(force.terms) :
          /\ force'.terms[t].particles = force.terms[t].particles
          /\ ~Occurs(indices, t - 1) => force'.terms[t] = force.terms[t]

C29_UpdateAtIndex_AsStated ==
    [][ \A indices \in IndexArrays, params \in ParamArrays(force) :
          (UpdateForceParameters(Len(indices), indices, params) /\ AllValid(indices)) =>
              /\ \A i \in 1..Len(indices) :
                    force'.terms[indices[i] + 1].params = Tuple(params, i)
              /\ FrameOfUpdate(indices) ]_vars

(***************************************************************************)
(* C29: a bulk update with n indices of existing terms and n parameter     *)
(* tuples replaces the parameters of the term at indices[i] with the i-th  *)
(* tuple, the last one given for an index that occurs more than once, and  *)
(* leaves that term's particles and every term whose index is not in the   *)
(* array unchanged.                                                        *)
(***************************************************************************)
LastOccurrence(indices, i) == \A k \in (i + 1)..Len(indices) : indices[k] /= indices[i]

C29_UpdateAtIndex ==
    [][ \A indices \in IndexArrays, params \in ParamArrays(force) :
          (UpdateForceParameters(Len(indices), indices, params) /\ AllValid(indices)) =>
              /\ ~ret'.err
              /\ \A i \in 1..Len(indices) :
                    LastOccurrence(indices, i) =>
                        force'.terms[indices[i] + 1].params = Tuple(params, i)
              /\ FrameOfUpdate(indices) ]_vars

\* Three terms, of which the third was just given new parameters and the
\* others keep two different parameter tuples.
C29_Witness ==
    /\ ret.op = "update_parameters" /\ ~ret.err
    /\ force.kind = "CustomCompoundBondForce"
    /\ Len(force.terms) = 3
    /\ force.terms[1].params = <<1, 2>>
    /\ force.terms[2].params = <<1, 2>>
    /\ force.terms[3].params = <<2, 1>>
    /\ force.terms[1].particles /= force.terms[3].particles

(***************************************************************************)
(* C30: a bulk add of n items to a force that holds m terms adds exactly n *)
(* terms in input order and writes to force_indices[i] the index of the    *)
(* i-th item: the indices are m .. m+n-1, pairwise distinct.               *)
(***************************************************************************)
C30_AddToForce ==
    [][ \A p \in ParticleArrays(force), params \in ParamArrays(force) :
          AddToForce(BatchSize(params), p, params) =>
              LET m == Len(force.terms)
                  n == BatchSize(params)
              IN  /\ ~ret'.err
                  /\ Len(force'.terms) = m + n
                  /\ \A t \in 1..m : force'.terms[t] = force.terms[t]
                  /\ ret'.val = [i \in 1..n |-> m + i - 1]
                  /\ \A i \in 1..n :
                        /\ force'.terms[m + i].params = Tuple(params, i)
                        /\ \A j \in 1..n_particles(force) :
                              force'.terms[m + i].particles[j]
                                  = p[(i - 1) * n_particles(force) + j] ]_vars

\* Two torsions with different parameters were added to a force that held one.
C30_Witness ==
    /\ ret.op = "add_to_force"
    /\ ret.val = <<1, 2>>
    /\ force.kind = "CustomTorsionForce"
    /\ Len(force.terms) = 3
    /\ force.terms[2].params /= force.terms[3].params
    /\ force.terms[2].particles /= force.terms[3].particles


(***************************************************************************)
(* Claims about the display radius                                         *)
(***************************************************************************)
RadiusSpan == LINEAR_RESTRAINT_MAX_RADIUS - LINEAR_RESTRAINT_MIN_RADIUS

\* The radius lies in [LINEAR_RESTRAINT_MIN_RADIUS, LINEAR_RESTRAINT_MAX_RADIUS].
RadiusInRange(rad) ==
    /\ LINEAR_RESTRAINT_MIN_RADIUS * rad.den <= rad.num
    /\ rad.num <= LINEAR_RESTRAINT_MAX_RADIUS * rad.den

\* rad = MIN + f * (MAX - MIN) with f = k / MAX_LINEAR_SPRING_CONSTANT.
LinearInK(rad, k) ==
    /\ rad.den = MAX_LINEAR_SPRING_CONSTANT
    /\ rad.num - LINEAR_RESTRAINT_MIN_RADIUS * rad.den = k * RadiusSpan

\* rad = MIN + f * (MAX - MIN) with f = sqrt(k / MAX_LINEAR_SPRING_CONSTANT),
\* f taken to the digits of SqrtScale: f^2 <= k / MAX < (f + 1/SqrtScale)^2.
SquareRootInK(rad, k) ==
    LET above == rad.num - LINEAR_RESTRAINT_MIN_RADIUS * rad.den
        f     == above \div RadiusSpan
        x     == k * ((SqrtScale * SqrtScale) \div MAX_LINEAR_SPRING_CONSTANT)
    IN  /\ rad.den = SqrtScale
        /\ above = f * RadiusSpan
        /\ f >= 0
        /\ f * f <= x
        /\ (f + 1) * (f + 1) > x

\* C31: radius() of a Distance_Restraint with spring constant k is
\* sqrt(k / MAX_LINEAR_SPRING_CONSTANT) * (MAX_RADIUS - MIN_RADIUS) + MIN_RADIUS,
\* radius() of a Position_Restraint is the same mapping with k / MAX in place
\* of the square root, and both lie in [MIN_RADIUS, MAX_RADIUS] for every
\* spring constant a restraint can hold.
C31_Radius ==
    /\ ret.op = "distance radius" =>
          LET rad == ret.val[2]
              k   == drestraint[ret.val[1]].spring_constant
          IN  SquareRootInK(rad, k) /\ RadiusInRange(rad)
    /\ ret.op = "radius" =>
          LET rad == ret.val[2]
              k   == prestraint[ret.val[1]].spring_constant
          IN  LinearInK(rad, k) /\ RadiusInRange(rad)

\* radius() was read from a restraint between the non-bonded atoms 2 and 4
\* that was constructed with target 2 and k = 50: sqrt(50 / 100000) = 0.0223.
C31_Witness ==
    /\ ret.op = "distance radius"
    /\ drestraint[ret.val[1]].atoms = <<2, 4>>
    /\ drestraint[ret.val[1]].target = 2
    /\ drestraint[ret.val[1]].spring_constant = 50
    /\ ret.val[2] = [num |-> 223 * RadiusSpan + LINEAR_RESTRAINT_MIN_RADIUS * SqrtScale,
                     den |-> SqrtScale]

(***************************************************************************)
(* Claims about the owned list and the index of the Dihedral_Mgr           *)
(***************************************************************************)
\* d is the instance the index holds under d's own residue and name.
IndexedUnderOwnKey(d) ==
    <<dihedral[d].residue, dihedral[d].name, d>> \in MappedEntries(_residue_map)

\* C32: the owned list and the (Residue, name) index agree in every state
\* reached by add_dihedral and destructors_done: every owned instance with a
\* residue and a non-empty name is the instance mapped under its (residue,
\* name), and every instance of the index is in the owned list.
C32_ListIndexAgree ==
    /\ \A d \in Range(_dihedrals) :
          (dihedral[d].residue /= Null /\ dihedral[d].name /= "")
              => IndexedUnderOwnKey(d)
    /\ \A e \in MappedEntries(_residue_map) : e[3] \in Range(_dihedrals)

\* C33: add_dihedral is idempotent: a second add_dihedral(d) right after the
\* first leaves the owned list, the index and num_mapped_dihedrals() as the
\* first call left them; and a descriptor with no residue or with an empty
\* name is stored in the owned list without changing num_mapped_dihedrals().
C33_AddIdempotent ==
    [][ \A d \in DihedralIds :
          AddDihedral(d) =>
              /\ add_dihedral_list(_dihedrals', d) = _dihedrals'
              /\ add_dihedral_map(_residue_map', d, dihedral'[d]) = _residue_map'
              /\ num_mapped_dihedrals_of(
                     add_dihedral_map(_residue_map', d, dihedral'[d]))
                   = num_mapped_dihedrals'
              /\ (dihedral[d].residue = Null \/ dihedral[d].name = "") =>
                    /\ d \in Range(_dihedrals')
                    /\ num_mapped_dihedrals' = num_mapped_dihedrals ]_vars

\* add_dihedral has stored a descriptor without a name next to a mapped one.
C33_Witness ==
    /\ ret.op = "add_dihedral"
    /\ Len(_dihedrals) = 2
    /\ num_mapped_dihedrals = 1
    /\ \E d \in Range(_dihedrals) : dihedral[d].name = "" /\ dihedral[d].residue /= Null
    /\ \E d \in Range(_dihedrals) : IndexedUnderOwnKey(d)

(***************************************************************************)
(* Claims about removed position restraints                                *)
(***************************************************************************)
\* The destroyed sets that hold identities of position restraints only.
RestraintIdentitySets ==
    (SUBSET { PositionRestraintPtr(r) : r \in RestraintIds }) \ {{}}

\* C34: a destructors_done call of the position restraint manager whose
\* destroyed set holds only restraint identities (the notification the
\* manager causes itself by deleting restraints) removes no restraint and
\* leaves the manager unchanged, so the purge ends after one pass.
C34_PurgeFixpoint ==
    \A S \in RestraintIdentitySets :
        position_destructors_done(_atom_to_restraint, prestraint, S)
            = [map |-> _atom_to_restraint, heap |-> prestraint]

\* delete_restraints has deleted the restraint with id 1, which was on atom 2,
\* and the restraint with id 2, on atom 3, is still registered.
C34_Witness ==
    /\ ret.op = "delete_restraints" /\ ret.val = 1
    /\ ~prestraint[1].live
    /\ DOMAIN _atom_to_restraint = {3}
    /\ _atom_to_restraint[3] = 2
    /\ AtomPtr(2) \notin destroyed

\* The restraints that the step removes.
RemovedByStep == { r \in RestraintIds : prestraint[r].live /\ ~prestraint'[r].live }

\* C35: after a restraint on an atom has been removed, by delete_restraints or
\* by a destruction purge, nothing of it is left under the atom, and
\* get_restraint(atom, create = true) on an atom without a restraint registers
\* a fresh one in the default state: target at the atom's current coordinate,
\* spring constant 0, disabled, simulation index -1.
C35_FreshAfterRemoval ==
    [][ /\ \A r \in RemovedByStep :
              LET atom == prestraint[r].atom
              IN  /\ find_restraint(_atom_to_restraint', atom) = Null
                  /\ RestraintsOn(prestraint', atom) = {}
                  /\ get_restraint_creates(_atom_to_restraint', atom, TRUE)
                  /\ new_restraint_error(atom) = "none"
        /\ \A atom \in AllAtomIds :
              (GetRestraint(atom, TRUE) /\ atom \notin DOMAIN _atom_to_restraint
                                        /\ ~ret'.err) =>
                  /\ ret'.val \in RestraintIds
                  /\ _atom_to_restraint'[atom] = ret'.val
                  /\ prestraint'[ret'.val] =
                        [live |-> TRUE, atom |-> atom, target |-> coord[atom],
                         spring_constant |-> 0, enabled |-> FALSE,
                         sim_index |-> NO_SIM_INDEX] ]_vars

\* get_restraint has registered a restraint for atom 2 in the default state
\* under an identity whose earlier holder had its spring constant set and was
\* deleted by delete_restraints (no atom has been destroyed).
C35_Witness ==
    /\ ret.op = "get_restraint" /\ ~ret.err /\ ret.val \in RestraintIds
    /\ destroyed = {}
    /\ _atom_to_restraint = MapPut(EmptyMap, 2, ret.val)
    /\ prestraint[ret.val] = Position_Restraint(2, coord[2])
    /\ <<POSITION_MGR, ret.val, REASON_SPRING_CONSTANT_CHANGED>> \in tracker

(***************************************************************************)
(* Claims about the Python interface                                       *)
(***************************************************************************)
\* C36: no exception raised inside the core escapes an extern "C" entry
\* point: every constructing entry point, rama_mgr_new and rota_mgr_new
\* included, returns, and when its constructor fails it has set the
\* molc_error state and returns null.
C36_NoExceptionEscapes ==
    ret.op \in ManagerEntryPoints =>
        /\ ret.val.returns
        /\ ret.err <=> ret.val.null

\* The elements of s that are not null, in the order of s.
NonNull(s) == SeqFilter(s, Range(s) \ {Null})

\* get_dihedral(residues[i], dname) for each i, looked up in the index rmap.
Lookups(rmap, residues, dname) ==
    [i \in 1..Len(residues) |-> get_dihedral(rmap, residues[i], dname)]

\* The result of the bulk lookup: the non-null results in input order, at most
\* n of them, each the instance the index holds for its residue after the
\* call; what was mapped before the call is still mapped, every new entry is a
\* new dihedral of a residue of the call, and without create nothing changes.
BulkLookupResult(residues, dname, create) ==
    /\ ~ret'.val.null
    /\ ret'.val.dihedrals = NonNull(Lookups(_residue_map', residues, dname))
    /\ Len(ret'.val.dihedrals) <= Len(residues)
    /\ create => Len(ret'.val.dihedrals) = Len(residues)
    /\ MappedEntries(_residue_map) \subseteq MappedEntries(_residue_map')
    /\ \A e \in MappedEntries(_residue_map') \ MappedEntries(_residue_map) :
          /\ e[1] \in Range(residues) /\ e[2] = dname
          /\ ~dihedral[e[3]].live
          /\ dihedral'[e[3]].residue = e[1] /\ dihedral'[e[3]].name = dname
    /\ ~create => UNCHANGED dihedralVars

\* C37 as stated: proper_dihedral_mgr_get_dihedrals over n residues returns
\* exactly the non-null results of get_dihedral(residue[i], name, create) in
\* input order, residues lacking the dihedral omitted, so at most n; with
\* create = false the manager is unchanged.
C37_GetDihedrals_AsStated ==
    [][ \A residues \in ResidueBatches, dname \in DihedralNames, create \in BOOLEAN :
          GetDihedrals(residues, dname, create) =>
              /\ ~ret'.err
              /\ BulkLookupResult(residues, dname, create) ]_vars

\* C37 as amended: the same when every get_dihedral call of the loop returns;
\* when one of them fails, which needs create = true, the entry point sets the
\* error state and returns null, and the dihedrals created for the residues
\* before it stay registered.
C37_GetDihedrals ==
    [][ \A residues \in ResidueBatches, dname \in DihedralNames, create \in BOOLEAN :
          GetDihedrals(residues, dname, create) =>
              IF ret'.err
              THEN /\ create
                   /\ ret'.val.null
                   /\ MappedEntries(_residue_map) \subseteq MappedEntries(_residue_map')
                   /\ \E i \in 1..Len(residues) :
                         get_dihedral(_residue_map', residues[i], dname) = Null
              ELSE BulkLookupResult(residues, dname, create) ]_vars

\* A lookup without creation over the residues (1, 2) has returned the one
\* dihedral there is, that of residue 2.
C37_Witness ==
    /\ ret.op = "get_dihedrals" /\ ~ret.err
    /\ ret.val.residues = <<1, 2>> /\ ~ret.val.create /\ ~ret.val.null
    /\ Len(ret.val.dihedrals) = 1
    /\ dihedral[ret.val.dihedrals[1]].residue = 2
    /\ num_mapped_dihedrals = 1

\* The registered distance restraints with both atoms in the set aset.
RestraintsWithin(aset) ==
    { r \in _restraints : drestraint[r].atoms[1] \in aset /\ drestraint[r].atoms[2] \in aset }

\* C38: distance_restraint_mgr_intra_restraints(atoms) returns exactly the
\* distance restraints whose two atoms both belong to the given atom set, each
\* of them once, and none with an atom outside the set.
C38_IntraRestraints ==
    ret.op = "intra_restraints" =>
        /\ ~ret.err /\ ~ret.val.null
        /\ Range(ret.val.restraints) = RestraintsWithin(Range(ret.val.atoms))
        /\ Len(ret.val.restraints) = Cardinality(Range(ret.val.restraints))

\* The atoms (1, 3, 1) were given while the restraints 1-3 and 1-4 were
\* registered: the restraint 1-3 alone was returned, once.
C38_Witness ==
    /\ ret.op = "intra_restraints"
    /\ ret.val.atoms = <<1, 3, 1>>
    /\ Len(ret.val.restraints) = 1
    /\ drestraint[ret.val.restraints[1]].atoms = <<1, 3>>
    /\ \E r \in _restraints : drestraint[r].atoms = <<1, 4>>

\* The entries of a batch that rota_mgr_non_favored is to return: those whose
\* validated score is binned ALLOWED or OUTLIER.
NonFavoredEntries(mgr, rotamers) ==
    { i \in 1..Len(rotamers) :
        rota_bin_score(mgr, rota_validate(mgr, rotamers)[i]) \in {"ALLOWED", "OUTLIER"} }

\* C39: rota_mgr_non_favored over n rotamers returns, in input order, exactly
\* the rotamers whose validated score bins as ALLOWED or OUTLIER; scores[j] is
\* the score of the j-th returned rotamer and the return value is their
\* count; a rotamer binned FAVORED or not-applicable is never returned.
C39_NonFavored ==
    [][ret'.op = "non_favored" =>
          LET b   == ret'.val.rotamers
              idx == InOrder(NonFavoredEntries(rota_mgr, b))
              vs  == rota_validate(rota_mgr, b)
              out == ret'.val.out
          IN  /\ out.found = Len(idx)
              /\ out.bad = [j \in 1..Len(idx) |-> b[idx[j]]]
              /\ out.scores = [j \in 1..Len(idx) |-> vs[idx[j]]]
              /\ \A j \in 1..out.found :
                    rota_bin_score(rota_mgr, validate(rota_mgr.interpolators, out.bad[j]))
                        \notin {"FAVORED", "NA"}]_vars

\* A batch of three was filtered: its first rotamer was left out as FAVORED,
\* a later one was returned, and one without a grid (NA) was left out too.
C39_Witness ==
    /\ ret.op = "non_favored"
    /\ Len(ret.val.rotamers) = 3
    /\ ret.val.out.found = 1
    /\ ret.val.out.bad[1] = ret.val.rotamers[2]
    /\ rota_bin_score(rota_mgr, validate(rota_mgr.interpolators, ret.val.rotamers[1])) = "FAVORED"
    /\ rota_bin_score(rota_mgr, validate(rota_mgr.interpolators, ret.val.rotamers[3])) = "NA"

====
